---- MODULE Spec2Model ----
(***************************************************************************)
(* Model of canteen-rss-scraper.py: the text utilities, the day parser,    *)
(* the dish consolidator (consolidate_split_lines), the two page           *)
(* segmenters (parse_hub_page, parse_foodcourt_page), the merge of a       *)
(* parsed page into menus_by_hub (scrape_weekly_menus) and get_today_menus.*)
(*                                                                         *)
(* Text.  A Python string is a sequence of atoms.  An atom is a chunk of   *)
(* the string that no regular expression of the program splits: a run of   *)
(* letters or digits ("Soup", "Monday", "s"), a single space " ", one      *)
(* punctuation character ("|", ":", ",", "/", "-", "!"), the zero-width    *)
(* joiner (written "ZWJ"), the en dash ("NDASH") or the plate emoji of the *)
(* block titles ("EMOJI").  Two adjacent word atoms are one longer word    *)
(* (<<"Sprout","s">> is "Sprouts", <<"Monday","Tuesday">> is               *)
(* "MondayTuesday"), so \b, substring search and whitespace splitting are  *)
(* computed on atoms exactly as the regular expressions compute them on    *)
(* characters.  A list of strings is a sequence of such sequences.         *)
(*                                                                         *)
(* Indices.  Python lists are 0-based; the sequences here are 1-based, so  *)
(* the loop variable i of the code is i-1 here and "i < n" is "i <= n".    *)
(***************************************************************************)
EXTENDS Integers, Sequences, FiniteSets, TLC

VARIABLES
    \* consolidate_split_lines
    raw_lines,      \* the argument
    i,              \* the outer loop index
    out,            \* the list out; each entry also records the input lines it was built from
    cpc,            \* "loop" | "done" | "idle"
    result,         \* the returned list
    \* parse_hub_page / parse_foodcourt_page
    page,           \* "hub" | "foodcourt" | "none": which parser runs
    hub_name,       \* the key of HUB_PAGES the page was fetched for
    lines,          \* split_into_lines(content)
    pos,            \* position of the for loop in lines
    spc,            \* "scan" | "parsed" | "merged" | "today" | "idle"
    block_menus, current_day, current_days_multi, collected_common,
    restaurant_menus, current_restaurant, current_days, sprout_buffer,
    key_error,      \* a KeyError was raised by restaurant_menus[..][d]
    menus_by_hub,   \* scrape_weekly_menus
    today_da,       \* get_today_menus: the Danish name of today
    today_menus,    \* get_today_menus: the returned blocks
    \* dedupe_list / dedupe_items
    dd_fn,          \* "list" | "items" | "none": which function is applied
    dd_items,       \* the argument of dedupe_list
    menu_texts,     \* the argument of dedupe_items
    dd_out,         \* the returned list
    dd_runs,        \* how many times the function has been applied
    dd_pc,          \* "call" | "returned" | "idle"
    \* parse_days_from_line
    day_line,       \* the argument
    day_result,     \* the returned list
    day_pc,         \* "call" | "returned" | "idle"
    \* scrape_weekly_menus
    hub_idx,        \* position of the for loop in HUB_PAGES
    html,           \* what fetch_page returned for the page: [loaded, lines]
    sw_pc,          \* "fetch" | "test" | "parse" | "done" | "idle"
    assigned,       \* the keys assigned into menus_by_hub, in the order of the assignments
    \* fetch_page
    fp_urls,        \* what each candidate URL does when requested: [raises, len]
    fp_k,           \* position of the for loop in urls
    fp_html,        \* the local html: [doc, url, len], doc = "None" before any page source
    fp_requested,   \* the positions of the URLs requested, in the order of the requests
    fp_pc           \* "loop" | "break" | "returned" | "idle"

consVars == <<raw_lines, i, out, cpc, result>>
segVars  == <<page, hub_name, lines, pos, spc, block_menus, current_day, current_days_multi,
              collected_common, restaurant_menus, current_restaurant, current_days,
              sprout_buffer, key_error, menus_by_hub, today_da, today_menus>>
dedupVars == <<dd_fn, dd_items, menu_texts, dd_out, dd_runs, dd_pc>>
dayVars == <<day_line, day_result, day_pc>>
scrapeVars == <<hub_idx, html, sw_pc, assigned>>
fetchVars == <<fp_urls, fp_k, fp_html, fp_requested, fp_pc>>
auxVars == <<dedupVars, dayVars, scrapeVars, fetchVars>>
vars == <<consVars, segVars, auxVars>>

(***************************************************************************)
(* Atoms                                                                   *)
(***************************************************************************)
SP == " "
ZWJ == "ZWJ"
NonWordAtoms == {" ", "|", ":", ",", "/", "-", "!", "ZWJ", "NDASH", "EMOJI"}
IsWord(a) == a \notin NonWordAtoms

\* str.lower() on one atom
LowerAtom(a) ==
    CASE a \in {"Soup", "SOUP"} -> "soup"
      [] a \in {"Fish", "FISH"} -> "fish"
      [] a \in {"Rice", "RICE"} -> "rice"
      [] a \in {"With", "WITH"} -> "with"
      [] a \in {"Monday", "MONDAY"} -> "monday"
      [] a \in {"Tuesday", "TUESDAY"} -> "tuesday"
      [] a \in {"Mandag", "MANDAG"} -> "mandag"
      [] a \in {"Tirsdag", "TIRSDAG"} -> "tirsdag"
      [] a \in {"Friday", "FRIDAY"} -> "friday"
      [] a \in {"Fredag", "FREDAG"} -> "fredag"
      [] a \in {"Saturday", "SATURDAY"} -> "saturday"
      [] a \in {"Mon", "MON"} -> "mon"
      [] a \in {"Day", "DAY"} -> "day"
      [] a \in {"Sal", "SAL"} -> "sal"
      [] a \in {"Vegetarian", "VEGETARIAN"} -> "vegetarian"
      [] a \in {"Vegetar", "VEGETAR"} -> "vegetar"
      [] a \in {"Opening", "OPENING"} -> "opening"
      [] a \in {"Hours", "HOURS"} -> "hours"
      [] a \in {"HUB", "Hub"} -> "hub"
      [] a \in {"Globetrotter", "GLOBETROTTER"} -> "globetrotter"
      [] a \in {"Homebound", "HOMEBOUND"} -> "homebound"
      [] a \in {"Sprout", "SPROUT"} -> "sprout"
      [] a \in {"Salad", "SALAD"} -> "salad"
      [] a \in {"S"} -> "s"
      [] a \in {"Brussels", "BRUSSELS"} -> "brussels"
      [] a \in {"Lunch", "LUNCH"} -> "lunch"
      [] a \in {"Menu", "MENU"} -> "menu"
      [] a \in {"Kays", "KAYS"} -> "kays"
      [] a \in {"And", "AND"} -> "and"
      [] a \in {"Og", "OG"} -> "og"
      [] OTHER -> a

\* str.upper() on one atom
UpperAtom(a) ==
    CASE LowerAtom(a) = "soup" -> "SOUP"
      [] LowerAtom(a) = "fish" -> "FISH"
      [] LowerAtom(a) = "rice" -> "RICE"
      [] LowerAtom(a) = "with" -> "WITH"
      [] LowerAtom(a) = "monday" -> "MONDAY"
      [] LowerAtom(a) = "tuesday" -> "TUESDAY"
      [] LowerAtom(a) = "mandag" -> "MANDAG"
      [] LowerAtom(a) = "tirsdag" -> "TIRSDAG"
      [] LowerAtom(a) = "friday" -> "FRIDAY"
      [] LowerAtom(a) = "fredag" -> "FREDAG"
      [] LowerAtom(a) = "saturday" -> "SATURDAY"
      [] LowerAtom(a) = "mon" -> "MON"
      [] LowerAtom(a) = "day" -> "DAY"
      [] LowerAtom(a) = "sal" -> "SAL"
      [] LowerAtom(a) = "vegetarian" -> "VEGETARIAN"
      [] LowerAtom(a) = "vegetar" -> "VEGETAR"
      [] LowerAtom(a) = "opening" -> "OPENING"
      [] LowerAtom(a) = "hours" -> "HOURS"
      [] LowerAtom(a) = "hub" -> "HUB"
      [] LowerAtom(a) = "globetrotter" -> "GLOBETROTTER"
      [] LowerAtom(a) = "homebound" -> "HOMEBOUND"
      [] LowerAtom(a) = "sprout" -> "SPROUT"
      [] LowerAtom(a) = "salad" -> "SALAD"
      [] LowerAtom(a) = "s" -> "S"
      [] LowerAtom(a) = "brussels" -> "BRUSSELS"
      [] LowerAtom(a) = "lunch" -> "LUNCH"
      [] LowerAtom(a) = "menu" -> "MENU"
      [] LowerAtom(a) = "kays" -> "KAYS"
      [] LowerAtom(a) = "and" -> "AND"
      [] LowerAtom(a) = "og" -> "OG"
      [] OTHER -> a

(***************************************************************************)
(* Sequence helpers.  Every operator binds its arguments and the values    *)
(* it uses more than once with  v \in {e} , so that each is computed once. *)
(***************************************************************************)
\* the one element of a one-element set
Val(S) == CHOOSE r \in S : TRUE

SetMin(S) == CHOOSE k \in S : \A m \in S : k <= m
SetMax(S) == CHOOSE k \in S : \A m \in S : m <= k

\* the subsequence of s at the indices in K, in order
Pick(s, K) ==
    Val({ LET F[k \in 0..Len(v)] ==
                  IF k = 0 THEN <<>>
                  ELSE IF k \in W THEN Append(F[k-1], v[k]) ELSE F[k-1]
          IN  F[Len(v)] : v \in {s}, W \in {K} })

Lower(s) == Val({ Pick([k \in 1..Len(v) |-> LowerAtom(v[k])], 1..Len(v)) : v \in {s} })
Upper(s) == Val({ Pick([k \in 1..Len(v) |-> UpperAtom(v[k])], 1..Len(v)) : v \in {s} })

\* s with the atoms at the indices in K replaced by a space
Blank(s, K) ==
    Val({ Pick([k \in 1..Len(v) |-> IF k \in W THEN SP ELSE v[k]], 1..Len(v))
          : v \in {s}, W \in {K} })

\* the largest index <= e of s whose atom is not a space (0 if none)
LastNonSpace(s, e) ==
    Val({ IF W = {} THEN 0 ELSE CHOOSE k \in W : \A m \in W : m <= k
          : W \in {{k \in 1..e : s[k] # SP}} })

\* the smallest index of s whose atom is not a space (Len(s)+1 if none)
FirstNonSpace(s) ==
    Val({ IF W = {} THEN Len(s) + 1 ELSE CHOOSE k \in W : \A m \in W : k <= m
          : W \in {{k \in 1..Len(s) : s[k] # SP}} })

\* str.strip()
Strip(s) == Val({ SubSeq(v, FirstNonSpace(v), LastNonSpace(v, Len(v))) : v \in {s} })

\* re.sub(r"\s{2,}", " ", s): every run of spaces becomes one space
Collapse(s) ==
    Val({ Pick(v, {k \in 1..Len(v) : ~(v[k] = SP /\ k > 1 /\ v[k-1] = SP)}) : v \in {s} })

\* pat occurs in s as a contiguous run of atoms starting at p
OccursAt(s, pat, p) ==
    /\ p + Len(pat) - 1 <= Len(s)
    /\ \A k \in 1..Len(pat) : s[p + k - 1] = pat[k]

Contains(s, pat) == \E v \in {s} : \E p \in 1..Len(v) : OccursAt(v, pat, p)

\* a regex \b holds between s[k] and s[k+1] (k = 0: start, k = Len(s): end)
BoundaryAfter(s, k) ==
    (k >= 1 /\ IsWord(s[k])) # (k < Len(s) /\ IsWord(s[k+1]))

\* " ".join(xs)
JoinSp(xs) ==
    Val({ LET F[k \in 0..Len(v)] ==
                  IF k = 0 THEN <<>>
                  ELSE IF k = 1 THEN v[1]
                  ELSE F[k-1] \o <<SP>> \o v[k]
          IN  F[Len(v)] : v \in {xs} })

(***************************************************************************)
(* Text utilities                                                          *)
(***************************************************************************)
\* the second substitution of tidy_line: re.sub(r"\s*\|\s*$", "", s)
DropTrailingPipe(s) ==
    Val({ IF e > 0 /\ s[e] = "|" THEN SubSeq(s, 1, LastNonSpace(s, e - 1)) ELSE s
          : e \in {LastNonSpace(s, Len(s))} })

\* tidy_line: drop zero-width joiners, one trailing pipe, extra spaces
tidy_line(s) ==
    Val({ Strip(Collapse(s2))
          : s2 \in { Val({ DropTrailingPipe(s1)
                           : s1 \in { Val({ Pick(v, {k \in 1..Len(v) : v[k] # ZWJ})
                                            : v \in {s} }) } }) } })

\* BOILERPLATE_PATTERNS: the patterns that a string over the atoms can match
\* (the other patterns contain words that are not atoms of the model)
MatchesOpeningHours(t) == Contains(t, <<"opening", SP, "hours">>)

MatchesHubNumber(t) ==
    \E p \in 1..Len(t) :
        /\ t[p] = "hub"
        /\ BoundaryAfter(t, p - 1)
        /\ \E q \in {p + 1, p + 2} :
              /\ q <= Len(t)
              /\ t[q] \in {"1", "2", "3"}
              /\ q = p + 2 => t[p + 1] = SP
              /\ BoundaryAfter(t, q)

MatchesZwj(t) == \E p \in 1..Len(t) : t[p] = ZWJ

is_boilerplate(text) ==
    \E c \in {Collapse(text)} : \E st \in {Strip(c)} : \E t \in {Lower(st)} :
        MatchesOpeningHours(t) \/ MatchesHubNumber(t) \/ MatchesZwj(t)

(***************************************************************************)
(* Day parsing                                                             *)
(***************************************************************************)
DAY_MAP(k) ==
    CASE k \in {"monday", "mandag"} -> "mandag"
      [] k \in {"tuesday", "tirsdag"} -> "tirsdag"
      [] k \in {"wednesday", "onsdag"} -> "onsdag"
      [] k \in {"thursday", "torsdag"} -> "torsdag"
      [] k \in {"friday", "fredag"} -> "fredag"

VALID_DAYS == <<"monday", "tuesday", "wednesday", "thursday", "friday",
                "mandag", "tirsdag", "onsdag", "torsdag", "fredag">>

DayKeys == {"monday", "tuesday", "wednesday", "thursday", "friday",
            "mandag", "tirsdag", "onsdag", "torsdag", "fredag"}

DAILY_DAYS_DA == <<"mandag", "tirsdag", "onsdag", "torsdag", "fredag">>

Weekdays == {"mandag", "tirsdag", "onsdag", "torsdag", "fredag"}

\* re.sub(r"\bw\b", " ", t) for a word w
BlankWord(t, w) ==
    Val({ Blank(v, {k \in 1..Len(v) :
                      v[k] = w /\ BoundaryAfter(v, k - 1) /\ BoundaryAfter(v, k)})
          : v \in {t} })

\* step 1 of parse_days_from_line: t_norm
DayNorm(text) ==
    Val({ BlankWord(t2, "og")
          : t2 \in { Val({ BlankWord(t1, "and")
              : t1 \in { Val({ Blank(t0, {k \in 1..Len(t0) : t0[k] \in {",", "/", ":", "NDASH", "-"}})
                  : t0 \in { Val({ Lower(td) : td \in {tidy_line(text)} }) } }) } }) } })

\* the weekday name spelled in t from atom k on: one atom, or the two atoms
\* "mon" "day" next to each other ("none" if there is none)
DayNameAt(t, k, b) ==
    IF t[k] \in DayKeys THEN t[k]
    ELSE IF k < b /\ t[k] = "mon" /\ t[k+1] = "day" THEN "monday"
    ELSE "none"

\* step 2: the days found in the whitespace-separated token t[a..b]
TokenDays(t, a, b) ==
    IF DayNameAt(t, a, b) # "none" /\ b = (IF t[a] \in DayKeys THEN a ELSE a + 1)
    THEN {DAY_MAP(DayNameAt(t, a, b))}
    ELSE Val({ IF hits = {} THEN {}
               ELSE {DAY_MAP(VALID_DAYS[CHOOSE n \in hits : \A m \in hits : n <= m])}
               : hits \in {{n \in 1..Len(VALID_DAYS) :
                              \E k \in a..b : DayNameAt(t, k, b) = VALID_DAYS[n]}} })

TokenBasedDays(t) ==
    UNION {TokenDays(t, ab[1], ab[2]) : ab \in
              {ab \in (1..Len(t)) \X (1..Len(t)) :
                  /\ ab[1] <= ab[2]
                  /\ \A k \in ab[1]..ab[2] : t[k] # SP
                  /\ (ab[1] = 1 \/ t[ab[1] - 1] = SP)
                  /\ (ab[2] = Len(t) \/ t[ab[2] + 1] = SP)}}

\* step 3: DAY_REGEX.finditer on the text without whitespace
CompactDays(t) ==
    Val({ {DAY_MAP(DayNameAt(c, k, Len(c))) :
              k \in {m \in 1..Len(c) : DayNameAt(c, m, Len(c)) # "none"}}
          : c \in {Pick(t, {k \in 1..Len(t) : t[k] # SP})} })

parse_days_from_line(text) ==
    Val({ Val({ Pick(DAILY_DAYS_DA, {n \in 1..Len(DAILY_DAYS_DA) : DAILY_DAYS_DA[n] \in days_found})
                : days_found \in {TokenBasedDays(t_norm) \cup CompactDays(t_norm)} })
          : t_norm \in {DayNorm(text)} })

is_day_header(line) == parse_days_from_line(line) # <<>>

(***************************************************************************)
(* Dedup helpers                                                           *)
(***************************************************************************)
\* characters that norm_key strips: everything outside [\w\-.,;:() ]
OddAtoms == {"|", "!", "/", "ZWJ", "NDASH", "EMOJI"}

norm_key(it) ==
    Val({ Strip(Lower(Pick(t, {k \in 1..Len(t) : t[k] \notin OddAtoms})))
          : t \in {tidy_line(it)} })

\* DedupeStep that puts the kept element at the front of out
DedupeStepFront(acc, it) ==
    Val({ IF key # <<>> /\ key \notin acc.seen
          THEN [seen |-> acc.seen \cup {key}, out |-> <<it>> \o acc.out]
          ELSE acc
          : key \in {norm_key(it)} })

\* DedupeStep that forgets a key when it drops an element with that key
DedupeStepForgets(acc, it) ==
    Val({ IF key # <<>> /\ key \notin acc.seen
          THEN [seen |-> acc.seen \cup {key}, out |-> Append(acc.out, it)]
          ELSE [seen |-> acc.seen \ {key}, out |-> acc.out]
          : key \in {norm_key(it)} })

\* one iteration of the loop of dedupe_list: acc is [seen, out]
DedupeStep(acc, it) ==
    Val({ IF key # <<>> /\ key \notin acc.seen
          THEN [seen |-> acc.seen \cup {key}, out |-> Append(acc.out, it)]
          ELSE acc
          : key \in {norm_key(it)} })

dedupe_list(items) ==
    Val({ LET F[k \in 0..Len(v)] ==
                  IF k = 0 THEN [seen |-> {}, out |-> <<>>]
                  ELSE Val({ DedupeStep(acc, v[k]) : acc \in {F[k-1]} })
          IN  F[Len(v)].out : v \in {items} })

\* Signature that leaves the first dish out
SignatureTitleOnly(item) ==
    Val({ <<norm_key(IF ls = <<>> THEN <<>> ELSE ls[1]), <<>>>>
          : ls \in {Pick(item, {n \in 1..Len(item) : tidy_line(item[n]) # <<>>})} })

\* lines 254-261: the signature of a block (a block is the sequence of its lines)
Signature(item) ==
    Val({ Val({ <<norm_key(IF ls = <<>> THEN <<>> ELSE ls[1]),
                   norm_key(IF dishes = {} THEN <<>> ELSE tidy_line(ls[SetMin(dishes)]))>>
                : dishes \in {{n \in 2..Len(ls) : ~is_boilerplate(tidy_line(ls[n]))}} })
          : ls \in {Pick(item, {n \in 1..Len(item) : tidy_line(item[n]) # <<>>})} })

\* one iteration of the loop of dedupe_items: acc is [seen, out]
DedupeItemsStep(acc, item) ==
    Val({ IF sig \notin acc.seen
          THEN [seen |-> acc.seen \cup {sig}, out |-> Append(acc.out, item)]
          ELSE acc
          : sig \in {Signature(item)} })

dedupe_items(texts) ==
    Val({ LET F[k \in 0..Len(v)] ==
                  IF k = 0 THEN [seen |-> {}, out |-> <<>>]
                  ELSE Val({ DedupeItemsStep(acc, v[k]) : acc \in {F[k-1]} })
          IN  F[Len(v)].out : v \in {texts} })

(***************************************************************************)
(* Consolidation helpers                                                   *)
(***************************************************************************)
ConnectorWords == {"with", "med", "served", "accompanied", "hertil", "hereto",
                   "topped", "og", "and", "finished"}

VegWords == {"vegetar", "vegetarian"}

is_connector(line) ==
    \E td \in {tidy_line(line)} : \E t \in {Lower(td)} :
        Len(t) >= 1 /\ t[1] \in ConnectorWords /\ BoundaryAfter(t, 1)

is_veg_label(line) ==
    \E td \in {tidy_line(line)} : \E low \in {Lower(td)} :
        low \in {<<"vegetarian">>, <<"vegetar">>, <<"vegetarian", ":">>, <<"vegetar", ":">>}

HasColon(cur) == \E k \in 1..Len(cur) : cur[k] = ":"

\* the text from index p on, with its leading spaces skipped
RestFrom(cur, p) ==
    Val({ SubSeq(r, FirstNonSpace(r), Len(r)) : r \in {SubSeq(cur, p, Len(cur))} })

\* re.match(r"^\s*(vegetar|vegetarian)\s+(.*)$", cur): groups 1 and 2, or no match
m_inline(cur) ==
    Val({ IF p + 1 <= Len(cur) /\ LowerAtom(cur[p]) \in VegWords /\ cur[p + 1] = SP
          THEN [match |-> TRUE, g1 |-> <<cur[p]>>, g2 |-> RestFrom(cur, p + 1)]
          ELSE [match |-> FALSE, g1 |-> <<>>, g2 |-> <<>>]
          : p \in {FirstNonSpace(cur)} })

\* re.match(r"^\s*(vegetar|vegetarian)\s*:\s*(.*)$", cur)
m_colon(cur) ==
    Val({ Val({ IF p <= Len(cur) /\ LowerAtom(cur[p]) \in VegWords /\ Len(r) >= 1 /\ r[1] = ":"
                THEN [match |-> TRUE, g1 |-> <<cur[p]>>, g2 |-> RestFrom(r, 2)]
                ELSE [match |-> FALSE, g1 |-> <<>>, g2 |-> <<>>]
                : r \in {IF p <= Len(cur) THEN RestFrom(cur, p + 1) ELSE <<>>} })
          : p \in {FirstNonSpace(cur)} })

(***************************************************************************)
(* consolidate_split_lines                                                 *)
(*                                                                         *)
(* One iteration of the outer while loop is one step.  A step returns the  *)
(* next value of the index (next), and what it appends to out (emit, zero  *)
(* or one entry).  An entry is [text, src]: text is the appended string,   *)
(* src the indices of the input lines whose text went into it.             *)
(***************************************************************************)
\* StopsAbsorb without the day-header test
StopsAbsorbNoDayHeader(nxt) ==
    nxt = <<>> \/ is_boilerplate(nxt) \/ is_veg_label(nxt)

\* a line ends the absorption of connector lines: the first test of the inner loops
StopsAbsorb(nxt) ==
    nxt = <<>> \/ is_boilerplate(nxt) \/ is_day_header(nxt) \/ is_veg_label(nxt)

\* ConnectorLoop that absorbs at most one connector line
ConnectorLoopOnce(ls, j, combined) ==
    IF j > Len(ls) THEN [j |-> j, combined |-> combined]
    ELSE Val({ IF nxt = <<>> \/ is_boilerplate(nxt) \/ is_day_header(nxt) \/ is_veg_label(nxt)
                  \/ ~is_connector(nxt)
               THEN [j |-> j, combined |-> combined]
               ELSE [j |-> j + 1, combined |-> tidy_line(combined \o <<SP>> \o nxt)]
               : nxt \in {tidy_line(ls[j])} })

\* the inner loop of the inline-vegetarian case and of the general case
RECURSIVE ConnectorLoop(_, _, _)
ConnectorLoop(ls, j, combined) ==
    IF j > Len(ls) THEN [j |-> j, combined |-> combined]
    ELSE Val({ IF StopsAbsorb(nxt) THEN [j |-> j, combined |-> combined]
               ELSE IF is_connector(nxt)
               THEN Val({ ConnectorLoop(ls, j + 1, c) : c \in {tidy_line(combined \o <<SP>> \o nxt)} })
               ELSE [j |-> j, combined |-> combined]
               : nxt \in {tidy_line(ls[j])} })

\* LabelLoop that stops at the first line that is no connector, once it has a dish
RECURSIVE LabelLoopConnectorsOnly(_, _, _, _)
LabelLoopConnectorsOnly(ls, j, parts, src) ==
    IF j > Len(ls) THEN [j |-> j, parts |-> parts, src |-> src]
    ELSE Val({ IF nxt = <<>> \/ is_boilerplate(nxt)
               THEN LabelLoopConnectorsOnly(ls, j + 1, parts, src)
               ELSE IF is_day_header(nxt) \/ is_veg_label(nxt)
                       \/ (parts # <<>> /\ ~is_connector(nxt))
               THEN [j |-> j, parts |-> parts, src |-> src]
               ELSE Val({ LabelLoopConnectorsOnly(ls, j + 1, p2, s2)
                          : p2 \in {Append(parts, nxt)}, s2 \in {src \cup {j}} })
               : nxt \in {tidy_line(ls[j])} })

\* the inner loop of the label-only case
RECURSIVE LabelLoop(_, _, _, _)
LabelLoop(ls, j, parts, src) ==
    IF j > Len(ls) THEN [j |-> j, parts |-> parts, src |-> src]
    ELSE Val({ IF nxt = <<>> \/ is_boilerplate(nxt)
               THEN LabelLoop(ls, j + 1, parts, src)
               ELSE IF is_day_header(nxt) \/ is_veg_label(nxt)
               THEN [j |-> j, parts |-> parts, src |-> src]
               ELSE Val({ LabelLoop(ls, j + 1, p2, s2)
                          : p2 \in {Append(parts, nxt)}, s2 \in {src \cup {j}} })
               : nxt \in {tidy_line(ls[j])} })

\* ColonLoop that absorbs connector lines only, whether or not it has a dish
RECURSIVE ColonLoopConnectorsOnly(_, _, _, _)
ColonLoopConnectorsOnly(ls, j, combined, added_dish) ==
    IF j > Len(ls) THEN [j |-> j, combined |-> combined]
    ELSE Val({ IF StopsAbsorb(nxt) THEN [j |-> j, combined |-> combined]
               ELSE IF is_connector(nxt)
               THEN Val({ ColonLoopConnectorsOnly(ls, j + 1, c, TRUE)
                          : c \in {tidy_line(combined \o <<SP>> \o nxt)} })
               ELSE [j |-> j, combined |-> combined]
               : nxt \in {tidy_line(ls[j])} })

\* the inner loop of the vegetarian-with-colon case
RECURSIVE ColonLoop(_, _, _, _)
ColonLoop(ls, j, combined, added_dish) ==
    IF j > Len(ls) THEN [j |-> j, combined |-> combined]
    ELSE Val({ IF StopsAbsorb(nxt) THEN [j |-> j, combined |-> combined]
               ELSE IF ~added_dish
               THEN Val({ ColonLoop(ls, j + 1, c, TRUE) : c \in {tidy_line(combined \o <<SP>> \o nxt)} })
               ELSE IF is_connector(nxt)
               THEN Val({ ColonLoop(ls, j + 1, c, TRUE) : c \in {tidy_line(combined \o <<SP>> \o nxt)} })
               ELSE [j |-> j, combined |-> combined]
               : nxt \in {tidy_line(ls[j])} })

\* which branch of the loop body the line at index k takes
Branch(ls, k) ==
    Val({ IF cur = <<>> \/ is_boilerplate(cur) THEN "skip"
          ELSE IF is_day_header(cur) THEN "header"
          ELSE IF \E m \in {m_inline(cur)} :
                    m.match /\ ~HasColon(cur) /\ tidy_line(m.g2) # <<>>
          THEN "inline"
          ELSE IF is_veg_label(cur) /\ ~HasColon(cur) THEN "label"
          ELSE IF m_colon(cur).match THEN "colon"
          ELSE "general"
          : cur \in {tidy_line(ls[k])} })

\* SkipStep that leaves the index where it is
SkipStepStays(ls, k) == [next |-> k, emit |-> <<>>]

SkipStep(ls, k) == [next |-> k + 1, emit |-> <<>>]

\* HeaderStep that drops the day header
HeaderStepDropped(ls, k) == [next |-> k + 1, emit |-> <<>>]

HeaderStep(ls, k) ==
    [next |-> k + 1, emit |-> <<[text |-> tidy_line(ls[k]), src |-> {k}]>>]

InlineStep(ls, k) ==
    Val({ [next |-> r.j, emit |-> <<[text |-> r.combined, src |-> k..(r.j - 1)]>>]
          : r \in { Val({ ConnectorLoop(ls, k + 1,
                                        Upper(Strip(m.g1)) \o <<":", SP>> \o tidy_line(m.g2))
                          : m \in {m_inline(tidy_line(ls[k]))} }) } })

LabelStep(ls, k) ==
    Val({ [next |-> r.j,
           emit |-> IF r.parts # <<>>
                    THEN <<[text |-> Upper(Strip(tidy_line(ls[k]))) \o <<":", SP>> \o JoinSp(r.parts),
                            src  |-> {k} \cup r.src]>>
                    ELSE <<>>]
          : r \in {LabelLoop(ls, k + 1, <<>>, {})} })

ColonStep(ls, k) ==
    Val({ [next |-> r.j, emit |-> <<[text |-> r.combined, src |-> k..(r.j - 1)]>>]
          : r \in { Val({ ColonLoop(ls, k + 1,
                                    IF dish # <<>> THEN label \o <<":", SP>> \o dish
                                                   ELSE label \o <<":">>,
                                    dish # <<>>)
                          : label \in { Val({ Upper(Strip(m.g1)) : m \in {m_colon(tidy_line(ls[k]))} }) },
                            dish  \in { Val({ tidy_line(m.g2) : m \in {m_colon(tidy_line(ls[k]))} }) } }) } })

\* GeneralStep that swallows the line after the run of connectors
GeneralStepSwallows(ls, k) ==
    Val({ [next |-> IF r.j <= Len(ls) THEN r.j + 1 ELSE r.j,
           emit |-> <<[text |-> r.combined, src |-> k..(r.j - 1)]>>]
          : r \in {ConnectorLoop(ls, k + 1, tidy_line(ls[k]))} })

GeneralStep(ls, k) ==
    Val({ [next |-> r.j, emit |-> <<[text |-> r.combined, src |-> k..(r.j - 1)]>>]
          : r \in {ConnectorLoop(ls, k + 1, tidy_line(ls[k]))} })

ConsStep(ls, k) ==
    Val({ CASE b = "skip"    -> SkipStep(ls, k)
            [] b = "header"  -> HeaderStep(ls, k)
            [] b = "inline"  -> InlineStep(ls, k)
            [] b = "label"   -> LabelStep(ls, k)
            [] b = "colon"   -> ColonStep(ls, k)
            [] b = "general" -> GeneralStep(ls, k)
          : b \in {Branch(ls, k)} })

\* the list out when the while loop ends
RECURSIVE ConsLoop(_, _, _)
ConsLoop(ls, k, acc) ==
    IF k > Len(ls) THEN acc
    ELSE Val({ Val({ ConsLoop(ls, r.next, a2) : a2 \in {acc \o r.emit} })
               : r \in {ConsStep(ls, k)} })

\* the final tidy and de-dup of the entries es
FinalTidy(es) ==
    Val({ dedupe_list(Pick(texts, {k \in 1..Len(texts) : texts[k] # <<>>}))
          : texts \in {Pick([k \in 1..Len(es) |-> tidy_line(es[k].text)], 1..Len(es))} })

consolidate_split_lines(ls) ==
    Val({ FinalTidy(o) : o \in { Val({ ConsLoop(v, 1, <<>>) : v \in {ls} }) } })

(***************************************************************************)
(* Dictionaries.  A dict whose iteration order is read (restaurant_menus,  *)
(* menus_by_hub) is [keys, val]: the keys in insertion order and the value *)
(* of each.  A day dict (weekday -> list of lines) is a function whose     *)
(* domain is the set of keys present.                                      *)
(***************************************************************************)
EmptyDict == [keys |-> <<>>, val |-> <<>>]

HasKey(d, k) == \E n \in 1..Len(d.keys) : d.keys[n] = k

\* d[k] = v
DictSet(d, k, v) ==
    IF HasKey(d, k)
    THEN [keys |-> d.keys, val |-> [x \in DOMAIN d.val |-> IF x = k THEN v ELSE d.val[x]]]
    ELSE [keys |-> Append(d.keys, k), val |-> d.val @@ (k :> v)]

\* days.setdefault(d, [])
SetDefault(days, d) == IF d \in DOMAIN days THEN days ELSE days @@ (d :> <<>>)

\* days[d].append(line) for every d of the sequence ds (each d a key of days)
AppendAll(days, ds, line) ==
    [d \in DOMAIN days |->
        IF \E n \in 1..Len(ds) : ds[n] = d THEN Append(days[d], line) ELSE days[d]]

\* for d in ds: days.setdefault(d, [])
RECURSIVE SetDefaultAll(_, _)
SetDefaultAll(days, ds) ==
    IF ds = <<>> THEN days ELSE SetDefaultAll(SetDefault(days, Head(ds)), Tail(ds))

\* days[d] = dedupe_list(days[d]) for every key d
DedupeDays(days) == [d \in DOMAIN days |-> dedupe_list(days[d])]

(***************************************************************************)
(* parse_hub_page                                                          *)
(***************************************************************************)
\* the targets of a content line (line 431)
HubTargets(multi, day) ==
    IF multi # <<>> THEN multi ELSE IF day # "None" THEN <<day>> ELSE <<>>

\* MergeCommon that puts the common lines ahead of the lines of the bucket
MergeCommonFirst(bucket, common) == common \o bucket

\* lines 446-448: the common lines are appended to one bucket unless their key is there
RECURSIVE MergeCommon(_, _)
MergeCommon(bucket, common) ==
    IF common = <<>> THEN bucket
    ELSE Val({ MergeCommon(b2, Tail(common))
               : b2 \in { IF \E n \in 1..Len(bucket) : norm_key(bucket[n]) = norm_key(Head(common))
                          THEN bucket
                          ELSE Append(bucket, Head(common)) } })

\* lines 438-452: what parse_hub_page returns for the buckets and the common lines
HubResult(menus, common) ==
    IF DOMAIN menus = {} /\ common # <<>>
    THEN DedupeDays([d \in Weekdays |-> common])
    ELSE Val({ DedupeDays([d \in Weekdays |-> MergeCommon(all[d], common)])
               : all \in {SetDefaultAll(menus, DAILY_DAYS_DA)} })

(***************************************************************************)
(* parse_foodcourt_page                                                    *)
(***************************************************************************)
RESTAURANTS_FOODCOURT == <<"globetrotter", "homebound", "sprout">>

\* r.capitalize()
Capitalize(r) ==
    CASE r = "globetrotter" -> "Globetrotter"
      [] r = "homebound" -> "Homebound"
      [] r = "sprout" -> "Sprout"

\* re.search(rf"\b{r}\b", low)
WordIn(low, r) ==
    \E p \in 1..Len(low) : low[p] = r /\ BoundaryAfter(low, p - 1) /\ BoundaryAfter(low, p)

\* FoundRest that takes a restaurant name inside a longer word for a heading
FoundRestSubstring(low) ==
    Val({ IF hits = {} THEN "None"
          ELSE Capitalize(RESTAURANTS_FOODCOURT[SetMin(hits)])
          : hits \in {{n \in 1..Len(RESTAURANTS_FOODCOURT) :
                         \E p \in 1..Len(low) : low[p] = RESTAURANTS_FOODCOURT[n]}} })

\* lines 485-489: the restaurant a heading line names, or "None"
FoundRest(low) ==
    Val({ IF hits = {} THEN "None"
          ELSE Capitalize(RESTAURANTS_FOODCOURT[SetMin(hits)])
          : hits \in {{n \in 1..Len(RESTAURANTS_FOODCOURT) : WordIn(low, RESTAURANTS_FOODCOURT[n])}} })

\* any(r in low for r in RESTAURANTS_FOODCOURT)
NamesRestaurant(low) ==
    \E n \in 1..Len(RESTAURANTS_FOODCOURT) : \E p \in 1..Len(low) : low[p] = RESTAURANTS_FOODCOURT[n]

\* re.search(r"(salad|salat|protein|dagens)", low)
SproutKeyword(low) == \E p \in 1..Len(low) : low[p] \in {"salad", "salat", "protein", "dagens"}

\* ensure_rest_day_entries that creates the restaurant and none of its weekdays
ensure_rest_day_entriesNameOnly(menus, name, days) ==
    IF HasKey(menus, name) THEN menus ELSE DictSet(menus, name, <<>>)

\* ensure_rest_day_entries(name, days)
ensure_rest_day_entries(menus, name, days) ==
    Val({ DictSet(m1, name, SetDefaultAll(m1.val[name], days))
          : m1 \in {IF HasKey(menus, name) THEN menus ELSE DictSet(menus, name, <<>>)} })

\* lines 516-519
AssignSprout(menus, buffer) ==
    IF buffer = <<>> THEN menus
    ELSE Val({ DictSet(m1, "Sprout",
                       [d \in DOMAIN m1.val["Sprout"] \cup Weekdays |-> buffer])
               : m1 \in {IF HasKey(menus, "Sprout") THEN menus ELSE DictSet(menus, "Sprout", <<>>)} })

\* lines 522-524
DedupeRestaurants(menus) ==
    [keys |-> menus.keys, val |-> [r \in DOMAIN menus.val |-> DedupeDays(menus.val[r])]]

(***************************************************************************)
(* scrape_weekly_menus and get_today_menus                                 *)
(***************************************************************************)
\* MergeRestaurants that stores every restaurant under the key of the second page
RECURSIVE MergeRestaurantsUnderHub(_, _, _)
MergeRestaurantsUnderHub(mbh, fc, n) ==
    IF n > Len(fc.keys) THEN mbh
    ELSE MergeRestaurantsUnderHub(DictSet(mbh, "HUB2", fc.val[fc.keys[n]]), fc, n + 1)

\* lines 543-550: what one parsed page adds to menus_by_hub
RECURSIVE MergeRestaurants(_, _, _)
MergeRestaurants(mbh, fc, n) ==
    IF n > Len(fc.keys) THEN mbh
    ELSE MergeRestaurants(DictSet(mbh, fc.keys[n], fc.val[fc.keys[n]]), fc, n + 1)

\* the key "HUB1 - Kays" stands for the key written with an en dash in the source
target_hubs == {"HUB1 - Kays", "Homebound", "HUB2", "HUB3", "Globetrotter", "Sprout"}

\* the text of a key of menus_by_hub
HubAtoms(hub) ==
    CASE hub = "HUB1 - Kays" -> <<"HUB", "1", SP, "NDASH", SP, "Kays">>
      [] hub = "HUB2" -> <<"HUB", "2">>
      [] hub = "HUB3" -> <<"HUB", "3">>
      [] OTHER -> <<hub>>

\* lines 608-611: the first line of a block
Title(hub) ==
    IF hub \in {"Homebound", "Globetrotter", "Sprout"}
    THEN <<"EMOJI", SP, "HUB", "1", SP, "-", SP>> \o HubAtoms(hub)
           \o <<SP, "Lunch", SP, "Menu", ":", SP, SP, "|", SP>>
    ELSE <<"EMOJI", SP>> \o HubAtoms(hub)
           \o <<SP, "-", SP, "Lunch", SP, "Menu", ":", SP, SP, "|", SP>>

\* lines 582-600: drop empty lines, day headers and boilerplate, keep the first of each key
RECURSIVE UniqueMenu(_, _, _)
UniqueMenu(items, seen, acc) ==
    IF items = <<>> THEN acc
    ELSE Val({ IF normalized = <<>> \/ is_day_header(normalized) \/ is_boilerplate(normalized)
               THEN UniqueMenu(Tail(items), seen, acc)
               ELSE Val({ IF k \in seen
                          THEN UniqueMenu(Tail(items), seen, acc)
                          ELSE UniqueMenu(Tail(items), seen \cup {k}, Append(acc, normalized))
                          : k \in {norm_key(normalized)} })
               : normalized \in {tidy_line(Head(items))} })

\* lines 603-604: "\n".join(tidy_line(x) for x in formatted_menu if tidy_line(x)), as lines
MenuText(unique_menu) ==
    Val({ IF ls = <<>> THEN << <<>> >> ELSE ls
          : ls \in { Val({ Pick(ts, {n \in 1..Len(ts) : ts[n] # <<>>})
                           : ts \in {[n \in 1..Len(unique_menu) |->
                                        tidy_line(<<SP, SP, SP>> \o unique_menu[n] \o <<SP, "|", SP>>)]} }) } })

\* HubBlock that reads the Monday bucket whatever today is
HubBlockMonday(hub, menu_dict, today) ==
    IF hub \notin target_hubs \/ "mandag" \notin DOMAIN menu_dict THEN <<>>
    ELSE IF menu_dict["mandag"] = <<>> THEN <<>>
    ELSE Val({ IF unique_menu = <<>> THEN <<>>
               ELSE << <<Title(hub)>> \o MenuText(unique_menu) >>
               : unique_menu \in {UniqueMenu(consolidate_split_lines(menu_dict["mandag"]), {}, <<>>)} })

\* lines 573-611: the blocks one hub contributes (none or one); a block is its lines
HubBlock(hub, menu_dict, today) ==
    IF hub \notin target_hubs \/ today \notin DOMAIN menu_dict THEN <<>>
    ELSE IF menu_dict[today] = <<>> THEN <<>>
    ELSE Val({ IF unique_menu = <<>> THEN <<>>
               ELSE << <<Title(hub)>> \o MenuText(unique_menu) >>
               : unique_menu \in {UniqueMenu(consolidate_split_lines(menu_dict[today]), {}, <<>>)} })

RECURSIVE TodayBlocks(_, _, _)
TodayBlocks(mbh, today, n) ==
    IF n > Len(mbh.keys) THEN <<>>
    ELSE HubBlock(mbh.keys[n], mbh.val[mbh.keys[n]], today) \o TodayBlocks(mbh, today, n + 1)

get_today_menus(mbh, today) == TodayBlocks(mbh, today, 1)

(***************************************************************************)
(* Inputs                                                                  *)
(***************************************************************************)
MaxLines == 4

\* all sequences over S of length at most n
SeqsUpTo(S, n) == UNION {[1..m -> S] : m \in 0..n}

\* the lines a bucket handed to consolidate_split_lines is drawn from
ConsPool ==
    { <<>>,
      <<"Soup", SP, "|">>,
      <<"with", SP, "rice">>,
      <<"Monday">>,
      <<"Monday", SP, "Opening", SP, "hours">>,
      <<"Vegetarian">>,
      <<"Vegetar", ":">>,
      <<"Vegetarian", SP, "Fish">> }

SegIdle ==
    /\ page = "none" /\ hub_name = "None" /\ lines = <<>> /\ pos = 0 /\ spc = "idle"
    /\ block_menus = <<>> /\ current_day = "None" /\ current_days_multi = <<>>
    /\ collected_common = <<>> /\ restaurant_menus = EmptyDict
    /\ current_restaurant = "None" /\ current_days = <<>> /\ sprout_buffer = <<>>
    /\ key_error = FALSE /\ menus_by_hub = EmptyDict
    /\ today_da = "None" /\ today_menus = <<>>

DedupIdle ==
    /\ dd_fn = "none" /\ dd_items = <<>> /\ menu_texts = <<>> /\ dd_out = <<>>
    /\ dd_runs = 0 /\ dd_pc = "idle"

DayIdle == day_line = <<>> /\ day_result = <<>> /\ day_pc = "idle"

\* fetch_page returned None
NoHtml == [loaded |-> FALSE, lines |-> <<>>]

ScrapeIdle ==
    /\ hub_idx = 0 /\ html = NoHtml /\ sw_pc = "idle" /\ assigned = <<>>

\* html = None
NoDoc == [doc |-> "None", url |-> 0, len |-> 0]

FetchIdle ==
    /\ fp_urls = <<>> /\ fp_k = 0 /\ fp_html = NoDoc /\ fp_requested = <<>> /\ fp_pc = "idle"

AuxIdle == DedupIdle /\ DayIdle /\ ScrapeIdle /\ FetchIdle

ConsIdle ==
    /\ raw_lines = <<>> /\ i = 0 /\ out = <<>> /\ cpc = "idle" /\ result = <<>>

(***************************************************************************)
(* consolidate_split_lines as a state machine                              *)
(***************************************************************************)
ConsInit ==
    /\ raw_lines \in SeqsUpTo(ConsPool, MaxLines)
    /\ i = 1
    /\ out = <<>>
    /\ cpc = "loop"
    /\ result = <<>>
    /\ SegIdle /\ AuxIdle

\* the guard of one iteration of the while loop that takes the branch b
InBranch(b) ==
    /\ cpc = "loop"
    /\ i <= Len(raw_lines)
    /\ Branch(raw_lines, i) = b

\* empty or boilerplate line: i += 1
ConsSkip ==
    /\ InBranch("skip")
    /\ \E r \in {SkipStep(raw_lines, i)} : i' = r.next /\ out' = out \o r.emit
    /\ UNCHANGED <<raw_lines, cpc, result, segVars, auxVars>>

\* day header: kept as an entry of its own
ConsDayHeader ==
    /\ InBranch("header")
    /\ \E r \in {HeaderStep(raw_lines, i)} : i' = r.next /\ out' = out \o r.emit
    /\ UNCHANGED <<raw_lines, cpc, result, segVars, auxVars>>

\* inline "Vegetarian <dish>" without colon
ConsInline ==
    /\ InBranch("inline")
    /\ \E r \in {InlineStep(raw_lines, i)} : i' = r.next /\ out' = out \o r.emit
    /\ UNCHANGED <<raw_lines, cpc, result, segVars, auxVars>>

\* vegetarian label alone, no colon
ConsLabelOnly ==
    /\ InBranch("label")
    /\ \E r \in {LabelStep(raw_lines, i)} : i' = r.next /\ out' = out \o r.emit
    /\ UNCHANGED <<raw_lines, cpc, result, segVars, auxVars>>

\* vegetarian with colon
ConsColon ==
    /\ InBranch("colon")
    /\ \E r \in {ColonStep(raw_lines, i)} : i' = r.next /\ out' = out \o r.emit
    /\ UNCHANGED <<raw_lines, cpc, result, segVars, auxVars>>

\* general dish line
ConsGeneral ==
    /\ InBranch("general")
    /\ \E r \in {GeneralStep(raw_lines, i)} : i' = r.next /\ out' = out \o r.emit
    /\ UNCHANGED <<raw_lines, cpc, result, segVars, auxVars>>

\* the loop has ended: final tidy, de-dup, return
ConsReturn ==
    /\ cpc = "loop"
    /\ i > Len(raw_lines)
    /\ result' = FinalTidy(out)
    /\ cpc' = "done"
    /\ UNCHANGED <<raw_lines, i, out, segVars, auxVars>>

ConsNext ==
    \/ ConsSkip
    \/ ConsDayHeader
    \/ ConsInline
    \/ ConsLabelOnly
    \/ ConsColon
    \/ ConsGeneral
    \/ ConsReturn

SpecCons == ConsInit /\ [][ConsNext]_vars

\* the function runs in one thread and nothing stops it: a step that can be
\* taken is taken
MaxFairLines == 3

ConsFairInit ==
    /\ raw_lines \in SeqsUpTo(ConsPool, MaxFairLines)
    /\ i = 1
    /\ out = <<>>
    /\ cpc = "loop"
    /\ result = <<>>
    /\ SegIdle /\ AuxIdle

SpecConsFair == ConsFairInit /\ [][ConsNext]_vars /\ WF_vars(ConsNext)

(***************************************************************************)
(* The page segmenters as a state machine: one page is parsed line by line *)
(* (one action per branch of the loop body), its result is merged into     *)
(* menus_by_hub and get_today_menus is run on it.                          *)
(***************************************************************************)
MaxPageLines == 4

\* lines of a hub page, as split_into_lines returns them
HubPool ==
    { <<"Soup">>,
      <<"soup", "!">>,
      <<"Fish", SP, "|">>,
      <<"Monday">>,
      <<"Monday", ",", SP, "Tuesday">>,
      <<"Monday", SP, "Opening", SP, "hours">>,
      <<"Globetrotter">>,
      <<"!">> }

\* lines of the food-court page
FoodcourtPool ==
    { <<"Globetrotter">>,
      <<"Sprout">>,
      <<"Brussels", SP, "sprout", "s">>,
      <<"salad">>,
      <<"Soup">>,
      <<"Monday">>,
      <<"Sprout", SP, "Monday", SP, "Opening", SP, "hours">> }

\* datetime.datetime.today(): a day a header names, one no header names, a weekend day
TodayChoices == {"mandag", "onsdag", "lordag"}

SegInit ==
    /\ ConsIdle /\ AuxIdle
    /\ \/ page = "hub" /\ hub_name = "HUB2" /\ lines \in SeqsUpTo(HubPool, MaxPageLines)
       \/ page = "foodcourt" /\ hub_name = "FOODCOURT"
            /\ lines \in SeqsUpTo(FoodcourtPool, MaxPageLines)
    /\ pos = 1 /\ spc = "scan"
    /\ block_menus = <<>> /\ current_day = "None" /\ current_days_multi = <<>>
    /\ collected_common = <<>> /\ restaurant_menus = EmptyDict
    /\ current_restaurant = "None" /\ current_days = <<>> /\ sprout_buffer = <<>>
    /\ key_error = FALSE /\ menus_by_hub = EmptyDict
    /\ today_da = "None" /\ today_menus = <<>>

Scanning(p) == page = p /\ spc = "scan" /\ pos <= Len(lines)

hubState == <<block_menus, current_day, current_days_multi, collected_common>>
fcState == <<restaurant_menus, current_restaurant, current_days, sprout_buffer, key_error>>
segInput == <<page, hub_name, lines>>
afterParse == <<menus_by_hub, today_da, today_menus>>

\* lines 416-420
HubSkip ==
    /\ Scanning("hub")
    /\ \E line \in {tidy_line(lines[pos])} : line = <<>> \/ is_boilerplate(line)
    /\ pos' = pos + 1
    /\ UNCHANGED <<consVars, auxVars, segInput, spc, hubState, fcState, afterParse>>

\* lines 422-428
HubDayHeader ==
    /\ Scanning("hub")
    /\ \E line \in {tidy_line(lines[pos])} :
          /\ ~(line = <<>> \/ is_boilerplate(line))
          /\ \E found_days \in {parse_days_from_line(line)} :
                /\ found_days # <<>>
                /\ current_day' = found_days[1]
                /\ current_days_multi' = found_days
                /\ block_menus' = SetDefault(block_menus, found_days[1])
    /\ pos' = pos + 1
    /\ UNCHANGED <<consVars, auxVars, segInput, spc, collected_common, fcState, afterParse>>

\* lines 431-434
HubContent ==
    /\ Scanning("hub")
    /\ \E line \in {tidy_line(lines[pos])} :
          /\ ~(line = <<>> \/ is_boilerplate(line))
          /\ parse_days_from_line(line) = <<>>
          /\ \E targets \in {HubTargets(current_days_multi, current_day)} :
                /\ targets # <<>>
                /\ block_menus' = AppendAll(SetDefaultAll(block_menus, targets), targets, line)
    /\ pos' = pos + 1
    /\ UNCHANGED <<consVars, auxVars, segInput, spc, current_day, current_days_multi,
                   collected_common, fcState, afterParse>>

\* lines 435-436
HubCommon ==
    /\ Scanning("hub")
    /\ \E line \in {tidy_line(lines[pos])} :
          /\ ~(line = <<>> \/ is_boilerplate(line))
          /\ parse_days_from_line(line) = <<>>
          /\ HubTargets(current_days_multi, current_day) = <<>>
          /\ collected_common' = Append(collected_common, line)
    /\ pos' = pos + 1
    /\ UNCHANGED <<consVars, auxVars, segInput, spc, block_menus, current_day, current_days_multi,
                   fcState, afterParse>>

\* lines 438-454
HubReturn ==
    /\ page = "hub" /\ spc = "scan" /\ pos > Len(lines)
    /\ block_menus' = HubResult(block_menus, collected_common)
    /\ spc' = "parsed"
    /\ UNCHANGED <<consVars, auxVars, segInput, pos, current_day, current_days_multi,
                   collected_common, fcState, afterParse>>


\* FcBranch with the heading test ahead of the boilerplate test
FcBranchHeadingFirst(line, rest) ==
    Val({ IF line # <<>> /\ FoundRest(low) # "None" THEN "heading"
          ELSE IF line = <<>> \/ is_boilerplate(line) THEN "skip"
          ELSE IF parse_days_from_line(line) # <<>> /\ rest # "None" THEN "day"
          ELSE IF rest = "Sprout" THEN "sprout"
          ELSE IF rest # "None" /\ ~NamesRestaurant(low) THEN "content"
          ELSE "ignored"
          : low \in {Lower(line)} })

\* the branch of the loop body of parse_foodcourt_page that a line takes
FcBranch(line, rest) ==
    Val({ IF line = <<>> \/ is_boilerplate(line) THEN "skip"
          ELSE IF FoundRest(low) # "None" THEN "heading"
          ELSE IF parse_days_from_line(line) # <<>> /\ rest # "None" THEN "day"
          ELSE IF rest = "Sprout" THEN "sprout"
          ELSE IF rest # "None" /\ ~NamesRestaurant(low) THEN "content"
          ELSE "ignored"
          : low \in {Lower(line)} })

FcAt(b) ==
    Scanning("foodcourt") /\ FcBranch(tidy_line(lines[pos]), current_restaurant) = b

\* lines 479-482
FcSkip ==
    /\ FcAt("skip")
    /\ pos' = pos + 1
    /\ UNCHANGED <<consVars, auxVars, segInput, spc, hubState, fcState, afterParse>>

\* FcHeading that keeps the day set of the section before
FcHeadingKeepsDays ==
    /\ FcAt("heading")
    /\ \E found_rest \in {FoundRest(Lower(tidy_line(lines[pos])))} :
          /\ current_restaurant' = found_rest
          /\ restaurant_menus' = ensure_rest_day_entries(restaurant_menus, found_rest, DAILY_DAYS_DA)
    /\ current_days' = current_days
    /\ pos' = pos + 1
    /\ UNCHANGED <<consVars, auxVars, segInput, spc, hubState, sprout_buffer, key_error, afterParse>>

\* lines 485-494
FcHeading ==
    /\ FcAt("heading")
    /\ \E found_rest \in {FoundRest(Lower(tidy_line(lines[pos])))} :
          /\ current_restaurant' = found_rest
          /\ restaurant_menus' = ensure_rest_day_entries(restaurant_menus, found_rest, DAILY_DAYS_DA)
    /\ current_days' = <<>>
    /\ pos' = pos + 1
    /\ UNCHANGED <<consVars, auxVars, segInput, spc, hubState, sprout_buffer, key_error, afterParse>>

\* lines 497-501
FcDayHeader ==
    /\ FcAt("day")
    /\ \E found_days \in {parse_days_from_line(tidy_line(lines[pos]))} :
          /\ current_days' = found_days
          /\ restaurant_menus' = ensure_rest_day_entries(restaurant_menus, current_restaurant, found_days)
    /\ pos' = pos + 1
    /\ UNCHANGED <<consVars, auxVars, segInput, spc, hubState, current_restaurant, sprout_buffer,
                   key_error, afterParse>>

\* FcSprout that keeps every line of the Sprout section
FcSproutKeepsAll ==
    /\ FcAt("sprout")
    /\ \E line \in {tidy_line(lines[pos])} : sprout_buffer' = Append(sprout_buffer, line)
    /\ pos' = pos + 1
    /\ UNCHANGED <<consVars, auxVars, segInput, spc, hubState, restaurant_menus, current_restaurant,
                   current_days, key_error, afterParse>>

\* lines 504-507
FcSprout ==
    /\ FcAt("sprout")
    /\ \E line \in {tidy_line(lines[pos])} :
          sprout_buffer' = IF SproutKeyword(Lower(line))
                           THEN Append(sprout_buffer, line)
                           ELSE sprout_buffer
    /\ pos' = pos + 1
    /\ UNCHANGED <<consVars, auxVars, segInput, spc, hubState, restaurant_menus, current_restaurant,
                   current_days, key_error, afterParse>>

\* lines 510-513; restaurant_menus[current_restaurant][d] raises KeyError on a missing key
FcContent ==
    /\ FcAt("content")
    /\ \E line \in {tidy_line(lines[pos])} :
       \E days_target \in {IF current_days # <<>> THEN current_days ELSE DAILY_DAYS_DA} :
          IF /\ HasKey(restaurant_menus, current_restaurant)
             /\ \A n \in 1..Len(days_target) :
                   days_target[n] \in DOMAIN restaurant_menus.val[current_restaurant]
          THEN /\ restaurant_menus' =
                     DictSet(restaurant_menus, current_restaurant,
                             AppendAll(restaurant_menus.val[current_restaurant], days_target, line))
               /\ pos' = pos + 1
               /\ UNCHANGED <<spc, key_error>>
          ELSE /\ key_error' = TRUE
               /\ spc' = "error"
               /\ UNCHANGED <<restaurant_menus, pos>>
    /\ UNCHANGED <<consVars, auxVars, segInput, hubState, current_restaurant, current_days,
                   sprout_buffer, afterParse>>

\* line 510, the condition being false: the line is not stored
FcIgnored ==
    /\ FcAt("ignored")
    /\ pos' = pos + 1
    /\ UNCHANGED <<consVars, auxVars, segInput, spc, hubState, fcState, afterParse>>

\* lines 515-526
FcReturn ==
    /\ page = "foodcourt" /\ spc = "scan" /\ pos > Len(lines)
    /\ restaurant_menus' = DedupeRestaurants(AssignSprout(restaurant_menus, sprout_buffer))
    /\ spc' = "parsed"
    /\ UNCHANGED <<consVars, auxVars, segInput, pos, hubState, current_restaurant, current_days,
                   sprout_buffer, key_error, afterParse>>

\* scrape_weekly_menus, lines 543-550
ScrapeMerge ==
    /\ spc = "parsed"
    /\ menus_by_hub' = IF hub_name = "FOODCOURT"
                       THEN MergeRestaurants(menus_by_hub, restaurant_menus, 1)
                       ELSE DictSet(menus_by_hub, hub_name, block_menus)
    /\ spc' = "merged"
    /\ UNCHANGED <<consVars, auxVars, segInput, pos, hubState, fcState, today_da, today_menus>>

\* get_today_menus
GetToday ==
    /\ spc = "merged"
    /\ \E today \in TodayChoices :
          /\ today_da' = today
          /\ today_menus' = get_today_menus(menus_by_hub, today)
    /\ spc' = "today"
    /\ UNCHANGED <<consVars, auxVars, segInput, pos, hubState, fcState, menus_by_hub>>

SegNext ==
    \/ HubSkip
    \/ HubDayHeader
    \/ HubContent
    \/ HubCommon
    \/ HubReturn
    \/ FcSkip
    \/ FcHeading
    \/ FcDayHeader
    \/ FcSprout
    \/ FcContent
    \/ FcIgnored
    \/ FcReturn
    \/ ScrapeMerge
    \/ GetToday

SpecSeg == SegInit /\ [][SegNext]_vars

(***************************************************************************)
(* parse_foodcourt_page alone, on pages made for the Sprout section: lines *)
(* with and without a keyword, a keyword line that names a weekday, one    *)
(* that is boilerplate and one that is a heading.                          *)
(***************************************************************************)
MaxSproutLines == 4

SproutPool ==
    { <<"Sprout">>,
      <<"Globetrotter">>,
      <<"salad">>,
      <<"protein">>,
      <<"Soup">>,
      <<"Monday">>,
      <<"salad", SP, "Monday">>,
      <<"salad", SP, "Opening", SP, "hours">>,
      <<"Sprout", SP, "salad">> }

SproutInit ==
    /\ ConsIdle /\ AuxIdle
    /\ page = "foodcourt" /\ hub_name = "FOODCOURT"
    /\ lines \in SeqsUpTo(SproutPool, MaxSproutLines)
    /\ pos = 1 /\ spc = "scan"
    /\ block_menus = <<>> /\ current_day = "None" /\ current_days_multi = <<>>
    /\ collected_common = <<>> /\ restaurant_menus = EmptyDict
    /\ current_restaurant = "None" /\ current_days = <<>> /\ sprout_buffer = <<>>
    /\ key_error = FALSE /\ menus_by_hub = EmptyDict
    /\ today_da = "None" /\ today_menus = <<>>

SproutNext ==
    \/ FcSkip
    \/ FcHeading
    \/ FcDayHeader
    \/ FcSprout
    \/ FcContent
    \/ FcIgnored
    \/ FcReturn

SpecSprout == SproutInit /\ [][SproutNext]_vars

(***************************************************************************)
(* dedupe_list and dedupe_items: the function is applied to an argument    *)
(* drawn from a pool, and then again to what it returned.                  *)
(***************************************************************************)
MaxItems == 4
MaxBlocks == 3
MaxRuns == 2

\* arguments of dedupe_list: lines with the same strong key, a line with an empty key
DedupPool == { <<"Soup">>, <<"soup", "!">>, <<"!">>, <<"Fish">> }

\* arguments of dedupe_items: blocks as get_today_menus composes them
BlockPool ==
    { <<Title("Globetrotter"), <<"Soup">>>>,
      <<Title("Globetrotter"), <<"Soup">>, <<"Fish">>>>,
      <<Title("Globetrotter"), <<"Fish">>>>,
      <<Title("Sprout"), <<"Soup">>>>,
      <<Title("Globetrotter"), <<"Monday", SP, "Opening", SP, "hours">>, <<"soup", "!">>>>,
      <<Title("Globetrotter"), <<"Monday", SP, "Opening", SP, "hours">>>> }

DedupInit ==
    /\ ConsIdle /\ SegIdle /\ DayIdle /\ ScrapeIdle /\ FetchIdle
    /\ \/ dd_fn = "list" /\ dd_items \in SeqsUpTo(DedupPool, MaxItems) /\ menu_texts = <<>>
       \/ dd_fn = "items" /\ menu_texts \in SeqsUpTo(BlockPool, MaxBlocks) /\ dd_items = <<>>
    /\ dd_out = <<>> /\ dd_runs = 0 /\ dd_pc = "call"

dedupFrame == <<consVars, segVars, dayVars, scrapeVars, fetchVars, dd_fn, dd_items, menu_texts>>

\* dedupe_list(items)
DedupeList ==
    /\ dd_fn = "list" /\ dd_pc = "call"
    /\ dd_out' = dedupe_list(dd_items)
    /\ dd_runs' = 1 /\ dd_pc' = "returned"
    /\ UNCHANGED dedupFrame

\* dedupe_list applied to the list it returned
DedupeListAgain ==
    /\ dd_fn = "list" /\ dd_pc = "returned" /\ dd_runs < MaxRuns
    /\ dd_out' = dedupe_list(dd_out)
    /\ dd_runs' = dd_runs + 1
    /\ UNCHANGED <<dedupFrame, dd_pc>>

\* dedupe_items(menu_texts)
DedupeItems ==
    /\ dd_fn = "items" /\ dd_pc = "call"
    /\ dd_out' = dedupe_items(menu_texts)
    /\ dd_runs' = 1 /\ dd_pc' = "returned"
    /\ UNCHANGED dedupFrame

\* dedupe_items applied to the list it returned
DedupeItemsAgain ==
    /\ dd_fn = "items" /\ dd_pc = "returned" /\ dd_runs < MaxRuns
    /\ dd_out' = dedupe_items(dd_out)
    /\ dd_runs' = dd_runs + 1
    /\ UNCHANGED <<dedupFrame, dd_pc>>

DedupNext ==
    \/ DedupeList
    \/ DedupeListAgain
    \/ DedupeItems
    \/ DedupeItemsAgain

SpecDedup == DedupInit /\ [][DedupNext]_vars

(***************************************************************************)
(* parse_days_from_line applied to one line                                *)
(***************************************************************************)
MaxDayWords == 2

\* weekday words, English and Danish, in several cases
DayWords == {"Monday", "TUESDAY", "mandag", "Tirsdag", "friday", "Fredag"}

\* what stands between two weekday words
DaySeps ==
    { <<",", SP>>, <<"/">>, <<":", SP>>, <<SP, "-", SP>>, <<"NDASH">>,
      <<SP, "and", SP>>, <<SP, "og", SP>>, <<SP>>, <<>> }

\* the lines made of exactly n weekday words
RECURSIVE WeekdayLines(_)
WeekdayLines(n) ==
    IF n = 1 THEN {<<w>> : w \in DayWords}
    ELSE {l \o sep \o <<w>> : l \in WeekdayLines(n - 1), sep \in DaySeps, w \in DayWords}

\* lines without a weekday word
OtherLines ==
    { <<>>, <<"Soup">>, <<"Saturday">>, <<"og">>,
      <<"Mon", SP, "day">>, <<"Sal", "mon", SP, "day">> }

DayLines == OtherLines \cup UNION {WeekdayLines(n) : n \in 1..MaxDayWords}

DaysInit ==
    /\ ConsIdle /\ SegIdle /\ DedupIdle /\ ScrapeIdle /\ FetchIdle
    /\ day_line \in DayLines
    /\ day_result = <<>> /\ day_pc = "call"

\* parse_days_from_line(day_line)
ParseDays ==
    /\ day_pc = "call"
    /\ day_result' = parse_days_from_line(day_line)
    /\ day_pc' = "returned"
    /\ UNCHANGED <<consVars, segVars, dedupVars, scrapeVars, fetchVars, day_line>>

DaysNext == ParseDays

SpecDays == DaysInit /\ [][DaysNext]_vars

(***************************************************************************)
(* scrape_weekly_menus: the loop over HUB_PAGES.  A page is fetched, then  *)
(* parsed line by line by the actions of the page segmenters, then merged  *)
(* into menus_by_hub; assigned lists the keys in the order of the          *)
(* assignments  menus_by_hub[key] = ...                                    *)
(***************************************************************************)
\* the keys of HUB_PAGES in the order of the dict ("HUB1 - Kays": see target_hubs)
HUB_PAGES == <<"HUB1 - Kays", "HUB2", "HUB3", "FOODCOURT">>

\* pages fetch_page can return for a hub
HubPages ==
    { << <<"Soup">>, <<"Monday">>, <<"Fish", SP, "|">> >>,
      << <<"Monday", SP, "Opening", SP, "hours">>, <<"Soup">> >>,
      << <<"Globetrotter">> >> }

\* pages fetch_page can return for the food court
FoodcourtPages ==
    { << <<"Soup">>, <<"Globetrotter">>, <<"Monday">>, <<"Soup">> >>,
      << <<"Sprout">>, <<"Salad">>, <<"Monday", SP, "Opening", SP, "hours">>,
         <<"Homebound">>, <<"Fish", SP, "|">> >> }

PagesOf(name) == IF name = "FOODCOURT" THEN FoodcourtPages ELSE HubPages

ScrapeInit ==
    /\ ConsIdle /\ SegIdle /\ DedupIdle /\ DayIdle /\ FetchIdle
    /\ hub_idx = 1 /\ html = NoHtml /\ sw_pc = "fetch" /\ assigned = <<>>

\* line 538: html = fetch_page(urls)
SwFetch ==
    /\ sw_pc = "fetch" /\ hub_idx <= Len(HUB_PAGES)
    /\ html' \in {NoHtml} \cup {[loaded |-> TRUE, lines |-> ls] : ls \in PagesOf(HUB_PAGES[hub_idx])}
    /\ sw_pc' = "test"
    /\ UNCHANGED <<consVars, segVars, dedupVars, dayVars, fetchVars, hub_idx, assigned>>

\* lines 539-541: nothing was loaded, the page is skipped
SwSkip ==
    /\ sw_pc = "test" /\ ~html.loaded
    /\ hub_idx' = hub_idx + 1
    /\ sw_pc' = "fetch"
    /\ UNCHANGED <<consVars, segVars, dedupVars, dayVars, fetchVars, html, assigned>>

\* lines 543-544, 548: the parser of the page is called; its locals are fresh
SwParse ==
    /\ sw_pc = "test" /\ html.loaded
    /\ page' = IF HUB_PAGES[hub_idx] = "FOODCOURT" THEN "foodcourt" ELSE "hub"
    /\ hub_name' = HUB_PAGES[hub_idx]
    /\ lines' = html.lines
    /\ pos' = 1 /\ spc' = "scan"
    /\ block_menus' = <<>> /\ current_day' = "None" /\ current_days_multi' = <<>>
    /\ collected_common' = <<>> /\ restaurant_menus' = EmptyDict
    /\ current_restaurant' = "None" /\ current_days' = <<>> /\ sprout_buffer' = <<>>
    /\ sw_pc' = "parse"
    /\ UNCHANGED <<consVars, dedupVars, dayVars, fetchVars, key_error, afterParse, hub_idx, html, assigned>>

\* lines 545-546, 549: the buckets of the page are assigned into menus_by_hub
SwMerge ==
    /\ sw_pc = "parse" /\ spc = "parsed"
    /\ menus_by_hub' = IF hub_name = "FOODCOURT"
                       THEN MergeRestaurants(menus_by_hub, restaurant_menus, 1)
                       ELSE DictSet(menus_by_hub, hub_name, block_menus)
    /\ assigned' = assigned \o (IF hub_name = "FOODCOURT" THEN restaurant_menus.keys
                                ELSE <<hub_name>>)
    /\ spc' = "merged"
    /\ hub_idx' = hub_idx + 1
    /\ sw_pc' = "fetch"
    /\ UNCHANGED <<consVars, dedupVars, dayVars, fetchVars, segInput, pos, hubState, fcState,
                   today_da, today_menus, html>>

\* lines 552-553
SwReturn ==
    /\ sw_pc = "fetch" /\ hub_idx > Len(HUB_PAGES)
    /\ sw_pc' = "done"
    /\ UNCHANGED <<consVars, segVars, dedupVars, dayVars, fetchVars, hub_idx, html, assigned>>

ScrapeNext ==
    \/ SwFetch
    \/ SwSkip
    \/ SwParse
    \/ HubSkip
    \/ HubDayHeader
    \/ HubContent
    \/ HubCommon
    \/ HubReturn
    \/ FcSkip
    \/ FcHeading
    \/ FcDayHeader
    \/ FcSprout
    \/ FcContent
    \/ FcIgnored
    \/ FcReturn
    \/ SwMerge
    \/ SwReturn

SpecScrape == ScrapeInit /\ [][ScrapeNext]_vars

(***************************************************************************)
(* fetch_page: the loop over the candidate URLs.  What the outside world   *)
(* does for a URL is an input: the request raises, or the driver holds a   *)
(* page source of some length.                                             *)
(***************************************************************************)
MaxUrls == 3

\* lengths of a page source: empty, at the limit of the sanity check, above it
PageLengths == {0, 1000, 1001}

UrlOutcomes ==
    {[raises |-> TRUE, len |-> 0]} \cup {[raises |-> FALSE, len |-> n] : n \in PageLengths}

\* line 99: html and len(html) > 1000
SanityCheck(h) == h.doc # "None" /\ h.len # 0 /\ h.len > 1000

FetchInit ==
    /\ ConsIdle /\ SegIdle /\ DedupIdle /\ DayIdle /\ ScrapeIdle
    /\ fp_urls \in SeqsUpTo(UrlOutcomes, MaxUrls)
    /\ fp_k = 1 /\ fp_html = NoDoc /\ fp_requested = <<>> /\ fp_pc = "loop"

fetchFrame == <<consVars, segVars, dedupVars, dayVars, scrapeVars, fp_urls>>

\* lines 90-91, 101-103: the request raises; html keeps its value, next URL
FpRaises ==
    /\ fp_pc = "loop" /\ fp_k <= Len(fp_urls)
    /\ fp_urls[fp_k].raises
    /\ fp_requested' = Append(fp_requested, fp_k)
    /\ fp_k' = fp_k + 1
    /\ UNCHANGED <<fetchFrame, fp_html, fp_pc>>

\* lines 90-100: the page source is assigned to html and passes the check: break
FpPasses ==
    /\ fp_pc = "loop" /\ fp_k <= Len(fp_urls)
    /\ ~fp_urls[fp_k].raises
    /\ \E h \in {[doc |-> "page", url |-> fp_k, len |-> fp_urls[fp_k].len]} :
          /\ SanityCheck(h)
          /\ fp_html' = h
    /\ fp_requested' = Append(fp_requested, fp_k)
    /\ fp_pc' = "break"
    /\ UNCHANGED <<fetchFrame, fp_k>>

\* lines 90-99: the page source is assigned to html and fails the check: next URL
FpFails ==
    /\ fp_pc = "loop" /\ fp_k <= Len(fp_urls)
    /\ ~fp_urls[fp_k].raises
    /\ \E h \in {[doc |-> "page", url |-> fp_k, len |-> fp_urls[fp_k].len]} :
          /\ ~SanityCheck(h)
          /\ fp_html' = h
    /\ fp_requested' = Append(fp_requested, fp_k)
    /\ fp_k' = fp_k + 1
    /\ UNCHANGED <<fetchFrame, fp_pc>>

\* lines 104-105: the loop is left, html is returned
FpReturn ==
    /\ fp_pc = "break" \/ (fp_pc = "loop" /\ fp_k > Len(fp_urls))
    /\ fp_pc' = "returned"
    /\ UNCHANGED <<fetchFrame, fp_k, fp_html, fp_requested>>

FetchNext ==
    \/ FpRaises
    \/ FpPasses
    \/ FpFails
    \/ FpReturn

SpecFetch == FetchInit /\ [][FetchNext]_vars

(***************************************************************************)
(* Properties of consolidate_split_lines (checked under SpecCons).  They   *)
(* are stated of the list out when the while loop has ended, and of the    *)
(* returned list.                                                          *)
(***************************************************************************)

OutIdx == 1..Len(out)
LineIdx == 1..Len(raw_lines)
LoopEnded == cpc = "loop" /\ i > Len(raw_lines)

\* what the properties need to know of each input line:
\*   cur    the line as the loops read it, tidy_line(raw_lines[k])
\*   noise  empty or boilerplate
\*   day    "a line for which parse_days_from_line is non-empty"
\*   veg    a vegetarian label, with or without colon
\*   conn   starts with a connector word
\*   branch the case of the loop body the line falls under
LineTable ==
    Pick([k \in LineIdx |->
            Val({ [cur    |-> c,
                   noise  |-> c = <<>> \/ is_boilerplate(c),
                   day    |-> parse_days_from_line(raw_lines[k]) # <<>>,
                   veg    |-> is_veg_label(c),
                   conn   |-> is_connector(c),
                   branch |-> Branch(raw_lines, k)]
                  : c \in {tidy_line(raw_lines[k])} })],
         LineIdx)

\* the entry e holds text of lines before the line k and of the line k or lines after it
Crosses(e, k) == \E a \in e.src, b \in e.src : a < k /\ k <= b

\* C1 as stated: no entry of out is built from lines on both sides of a line
\* for which parse_days_from_line is non-empty, and no such line is absorbed
\* into an entry that started before it.
C1_NoCrossingAnyDayLine ==
    LoopEnded =>
        \E T \in {LineTable} :
            \A p \in OutIdx : \A k \in LineIdx : T[k].day => ~Crosses(out[p], k)

\* C1 amended: no entry of out is built from lines on both sides of a day-header
\* line that is not boilerplate; such a header is an entry of its own, so the
\* first content line after it starts a new entry.
C1_NoCrossingDayHeader ==
    LoopEnded =>
        \E T \in {LineTable} :
            \A p \in OutIdx : \A k \in LineIdx :
                (T[k].day /\ ~T[k].noise) =>
                    /\ ~Crosses(out[p], k)
                    /\ k \in out[p].src => out[p].src = {k}

\* an entry built from two or more lines ends right before a day header, and a
\* later entry starts with the first line after that header
C1_Witness ==
    /\ LoopEnded
    /\ \E T \in {LineTable} : \E p \in OutIdx, q \in OutIdx :
          \E h \in {SetMax(out[p].src) + 1} :
              /\ Cardinality(out[p].src) >= 2
              /\ h + 1 \in LineIdx
              /\ T[h].day /\ ~T[h].noise
              /\ SetMin(out[q].src) = h + 1

\* C2 as stated: the returned list contains no day-header line.
C2_NoDayHeaderReturned ==
    cpc = "done" => \A m \in 1..Len(result) : ~is_day_header(result[m])

\* the input has the shape [dish, connector line, day header, dish2]
C2_Shape(T) ==
    /\ Len(raw_lines) = 4
    /\ T[1].branch = "general"
    /\ ~T[2].noise /\ ~T[2].day /\ T[2].conn
    /\ ~T[3].noise /\ T[3].day
    /\ T[4].branch = "general"

\* C2 amended: a day-header line that is not boilerplate is kept in the returned
\* list (one entry per distinct header), so [dish, connector line, day header,
\* dish2] returns [dish + " " + connector line, day header, dish2].
C2_DayHeaderKept ==
    cpc = "done" =>
        \E T \in {LineTable} :
            /\ \A k \in LineIdx :
                  (T[k].day /\ ~T[k].noise) =>
                      \E m \in 1..Len(result) :
                          /\ is_day_header(result[m])
                          /\ norm_key(result[m]) = norm_key(T[k].cur)
            /\ C2_Shape(T) =>
                  result = <<T[1].cur \o <<SP>> \o T[2].cur, T[3].cur, T[4].cur>>

C2_Witness == cpc = "done" /\ C2_Shape(LineTable) /\ Len(result) = 3

\* bare label: "vegetarian" or "vegetar", any case, no colon
BareLabel(cur) == Lower(cur) \in {<<"vegetarian">>, <<"vegetar">>}

\* label with a trailing colon and no dish text
ColonLabel(cur) == Lower(cur) \in {<<"vegetarian", ":">>, <<"vegetar", ":">>}

\* the first index after k whose line is neither empty nor boilerplate and is a
\* day header or a vegetarian label (Len+1 if none)
LabelStop(T, k) ==
    SetMin({m \in (k + 1)..(Len(T) + 1) :
               m = Len(T) + 1 \/ (~T[m].noise /\ (T[m].day \/ T[m].veg))})

\* the lines a bare label at k absorbs
LabelAbsorbed(T, k) == {m \in (k + 1)..(LabelStop(T, k) - 1) : ~T[m].noise}

\* the tidied lines at the indices K, in input order
CurAt(T, K) == Pick([m \in 1..Len(T) |-> T[m].cur], K)

\* C4: a bare vegetarian label absorbs every following line that is neither
\* empty nor boilerplate, up to the next day-header or vegetarian-label line, and
\* exactly one entry "LABEL: <lines joined by single spaces>" is appended for them.
C4_LabelOnlyAbsorbsAll ==
    LoopEnded =>
        \E T \in {LineTable} : \A k \in LineIdx :
            BareLabel(T[k].cur) =>
                \E A \in {LabelAbsorbed(T, k)} :
                    A # {} =>
                        \E p \in OutIdx :
                            /\ out[p].text = Upper(T[k].cur) \o <<":", SP>> \o JoinSp(CurAt(T, A))
                            /\ out[p].src = {k} \cup A
                            /\ \A q \in OutIdx : out[q].src \cap ({k} \cup A) # {} => q = p

\* a bare label has absorbed two lines of which the second is no connector
C4_Witness ==
    /\ LoopEnded
    /\ \E T \in {LineTable} : \E k \in LineIdx :
          /\ BareLabel(T[k].cur)
          /\ \E A \in {LabelAbsorbed(T, k)} :
                Cardinality(A) >= 2 /\ ~T[SetMax(A)].conn

\* the label at k has nothing to absorb: it is the last line, or the next line
\* that is neither empty nor boilerplate is a day header or a vegetarian label
NothingToAbsorb(T, k) ==
    \/ k = Len(T)
    \/ \E m \in (k + 1)..Len(T) :
          /\ ~T[m].noise /\ (T[m].day \/ T[m].veg)
          /\ \A n \in (k + 1)..(m - 1) : T[n].noise

\* C5 as stated: a label without dish text, with or without colon, that has
\* nothing to absorb produces no entry.
C5_EmptyLabelEmitsNothing ==
    LoopEnded =>
        \E T \in {LineTable} : \A k \in LineIdx :
            ((BareLabel(T[k].cur) \/ ColonLabel(T[k].cur)) /\ NothingToAbsorb(T, k)) =>
                \A p \in OutIdx : k \notin out[p].src

\* the line at m is absorbed as a connector
Absorbable(T, m) == ~T[m].noise /\ ~T[m].day /\ ~T[m].veg /\ T[m].conn

\* the last line of the maximal run of connector lines right after k
RunEnd(T, k) ==
    SetMin({j \in k..Len(T) :
               /\ \A m \in (k + 1)..j : Absorbable(T, m)
               /\ j = Len(T) \/ ~Absorbable(T, j + 1)})

\* the line at k is absorbed by an entry that started before it
AbsorbedEarlier(k) == \E p \in OutIdx : k \in out[p].src /\ SetMin(out[p].src) < k

\* what the entry of the line cur starts with
BaseText(cur, branch) ==
    IF branch = "inline"
    THEN Upper(m_inline(cur).g1) \o <<":", SP>> \o m_inline(cur).g2
    ELSE cur

\* C6: an ordinary dish line, and an inline vegetarian line, is appended as one
\* entry: its text, then the maximal run of connector lines right after it,
\* joined by single spaces; the line that ends the run is not part of it.
C6_ConnectorRun ==
    LoopEnded =>
        \E T \in {LineTable} : \A k \in LineIdx :
            (T[k].branch \in {"general", "inline"} /\ ~AbsorbedEarlier(k)) =>
                \E e \in {RunEnd(T, k)} : \E p \in OutIdx :
                    /\ out[p].src = k..e
                    /\ out[p].text = JoinSp(<<BaseText(T[k].cur, T[k].branch)>>
                                            \o CurAt(T, (k + 1)..e))
                    /\ \A q \in OutIdx : out[q].src \cap (k..e) # {} => q = p

\* an inline vegetarian line has absorbed two connector lines
C6_Witness ==
    /\ LoopEnded
    /\ \E T \in {LineTable} : \E k \in LineIdx :
          /\ T[k].branch = "inline" /\ ~AbsorbedEarlier(k)
          /\ RunEnd(T, k) >= k + 2

\* a line the colon label can take as its dish
Plain(T, m) == ~T[m].noise /\ ~T[m].day /\ ~T[m].veg

\* C19: a vegetarian label with colon and no dish text, followed by a line that
\* is not empty, boilerplate, a day header or a vegetarian label, takes that
\* line as its dish, connector or not, then the maximal run of connector lines
\* right after it and no other line, and one entry "LABEL: <dish> <connectors>"
\* is appended for them
C19_ColonLabelTakesOnePlainLine ==
    LoopEnded =>
        \E T \in {LineTable} : \A k \in LineIdx :
            (ColonLabel(T[k].cur) /\ k < Len(T) /\ Plain(T, k + 1)) =>
                \E e \in {RunEnd(T, k + 1)} : \E p \in OutIdx :
                    /\ out[p].src = k..e
                    /\ out[p].text = Upper(<<T[k].cur[1]>>) \o <<":", SP>>
                                        \o JoinSp(CurAt(T, (k + 1)..e))
                    /\ \A q \in OutIdx : out[q].src \cap (k..e) # {} => q = p

\* a colon label has taken a line that is no connector and one connector line,
\* and has left alone the line after them, which is no connector
C19_Witness ==
    /\ LoopEnded
    /\ \E T \in {LineTable} : \E k \in LineIdx :
          /\ ColonLabel(T[k].cur) /\ k + 3 <= Len(T)
          /\ Plain(T, k + 1) /\ ~T[k + 1].conn
          /\ RunEnd(T, k + 1) = k + 2
          /\ Plain(T, k + 3)

(***************************************************************************)
(* Properties of the page segmenters (checked under SpecSeg).  The lines   *)
(* of the page are classified here from their text alone, in the order of  *)
(* the classification of a line: noise (empty or boilerplate), section     *)
(* heading (a restaurant name as a word, on the food-court page), day      *)
(* header, content.                                                        *)
(***************************************************************************)
PageIdx == 1..Len(lines)

\* the class of a line text t
LineClass(t) ==
    IF t = <<>> \/ is_boilerplate(t) THEN "noise"
    ELSE IF /\ page = "foodcourt"
            /\ \E low \in {Lower(t)} :
                  \E n \in 1..Len(RESTAURANTS_FOODCOURT) : WordIn(low, RESTAURANTS_FOODCOURT[n])
         THEN "heading"
    ELSE IF parse_days_from_line(t) # <<>> THEN "day"
    ELSE "content"

\* the tidied text and the class of every line of the page
SegTable ==
    Pick([k \in PageIdx |->
            Val({ [t |-> t, class |-> LineClass(t)] : t \in {tidy_line(lines[k])} })],
         PageIdx)

IsHeading(T, k) == T[k].class = "heading"
IsDayHeader(T, k) == T[k].class = "day"
IsContent(T, k) == T[k].class = "content"

\* the last section heading before the line k, 0 when there is none
HeadingBefore(T, k) == SetMax({0} \cup {h \in 1..(k - 1) : IsHeading(T, h)})

\* the last day header before the line k with no heading after it, 0 when there is none
DayHeaderBefore(T, k) ==
    SetMax({0} \cup {q \in (HeadingBefore(T, k) + 1)..(k - 1) : IsDayHeader(T, q)})

\* the line k lies in a section: anywhere on a hub page, after a heading on the food-court page
InSection(T, k) == page = "hub" \/ HeadingBefore(T, k) > 0

SectionOf(T, k) ==
    IF page = "hub" THEN hub_name ELSE FoundRest(Lower(T[HeadingBefore(T, k)].t))

SeqSet(sq) == {sq[n] : n \in 1..Len(sq)}

\* the list of a bucket, empty when the bucket does not exist
Bucket(days, d) == IF d \in DOMAIN days THEN days[d] ELSE <<>>

\* the buckets of a section in a state given by the two bucket variables
BucketsOf(bm, rm, name) ==
    IF page = "hub" THEN bm
    ELSE IF HasKey(rm, name) THEN rm.val[name] ELSE <<>>

\* the sections a page can hold
AllSections ==
    IF page = "hub" THEN {hub_name}
    ELSE SeqSet(restaurant_menus.keys) \cup {"Globetrotter", "Homebound", "Sprout"}

\* from the buckets b to the buckets b2 the line went to the end of the bucket of
\* every weekday of S, and the other buckets kept their lists
AppendedTo(b, b2, S, line) ==
    \A d \in Weekdays :
        IF d \in S THEN d \in DOMAIN b2 /\ b2[d] = Append(Bucket(b, d), line)
        ELSE Bucket(b2, d) = Bucket(b, d)

\* no list of any bucket of any section changes in the step
NothingStored ==
    \A name \in AllSections : \A d \in Weekdays :
        Bucket(BucketsOf(block_menus', restaurant_menus', name), d)
            = Bucket(BucketsOf(block_menus, restaurant_menus, name), d)

\* the lists of the sections other than name do not change in the step
OthersKept(name) ==
    \A other \in AllSections \ {name} : \A d \in Weekdays :
        Bucket(BucketsOf(block_menus', restaurant_menus', other), d)
            = Bucket(BucketsOf(block_menus, restaurant_menus, other), d)

StepOfLine == spc = "scan" /\ pos <= Len(lines) /\ pos' = pos + 1

\* C3 as stated: on a hub page, and in a food-court section other than Sprout,
\* the step of a content line that follows a day header naming the weekdays S
\* (no later header or heading before it) appends the line to the bucket of
\* each weekday of S and to no other bucket, and the step of a day header
\* stores nothing.
C3_ContentGoesToDaySet ==
    [][ StepOfLine =>
          \E T \in {SegTable} : \E q \in {DayHeaderBefore(T, pos)} :
             /\ ( /\ IsContent(T, pos) /\ InSection(T, pos) /\ q > 0
                  /\ SectionOf(T, pos) # "Sprout" )
                => /\ AppendedTo(BucketsOf(block_menus, restaurant_menus, SectionOf(T, pos)),
                                 BucketsOf(block_menus', restaurant_menus', SectionOf(T, pos)),
                                 SeqSet(parse_days_from_line(T[q].t)), T[pos].t)
                   /\ OthersKept(SectionOf(T, pos))
             /\ (IsDayHeader(T, pos) /\ InSection(T, pos)) => NothingStored
      ]_vars

\* a line that holds a restaurant name and a weekday name and is boilerplate
\* has been passed while a section and a day set were current
C7_Witness ==
    /\ page = "foodcourt" /\ spc = "scan" /\ pos > 1
    /\ \E t \in {tidy_line(lines[pos - 1])} :
          /\ is_boilerplate(t)
          /\ parse_days_from_line(t) # <<>>
          /\ FoundRest(Lower(t)) \notin {"None", current_restaurant}
    /\ current_restaurant # "None" /\ current_days # <<>>

\* C7: the step of a line for which is_boilerplate holds leaves the current
\* section, the current day set, the common lines, the Sprout buffer and
\* every bucket as they were, on both kinds of page.
C7_BoilerplateChangesNothing ==
    [][ (StepOfLine /\ is_boilerplate(tidy_line(lines[pos])))
          => UNCHANGED <<block_menus, current_day, current_days_multi, collected_common,
                         restaurant_menus, current_restaurant, current_days, sprout_buffer>>
      ]_vars

Parsed == spc \in {"parsed", "merged", "today"}

\* a food-court section under a restricted day set got a content line, and the page is parsed
C8_Witness ==
    /\ page = "foodcourt" /\ spc = "parsed" /\ current_days # <<>>
    /\ current_restaurant # "None"
    /\ \E d \in Weekdays : restaurant_menus.val[current_restaurant][d] # <<>>
    /\ \E d \in Weekdays : restaurant_menus.val[current_restaurant][d] = <<>>

\* C8: no append of parse_foodcourt_page finds its bucket missing (the hub
\* parser creates the bucket it appends to), every restaurant of
\* restaurant_menus has the five weekday buckets throughout the pass, and
\* parse_hub_page returns the five weekday buckets.
C8_EveryWeekdayHasBucket ==
    /\ key_error = FALSE /\ spc # "error"
    /\ \A n \in 1..Len(restaurant_menus.keys) :
          Weekdays \subseteq DOMAIN restaurant_menus.val[restaurant_menus.keys[n]]
    /\ (page = "hub" /\ Parsed) => Weekdays \subseteq DOMAIN block_menus
    /\ \A n \in 1..Len(menus_by_hub.keys) :
          Weekdays \subseteq DOMAIN menus_by_hub.val[menus_by_hub.keys[n]]

\* the content lines of the page, in page order
ContentLines(T) == Pick([k \in PageIdx |-> T[k].t], {k \in PageIdx : IsContent(T, k)})

\* a section without a day header has one list for the five weekdays
SameListAllWeek ==
    spc = "parsed" =>
      \E T \in {SegTable} :
        /\ ( /\ page = "hub"
             /\ \A k \in PageIdx : ~IsDayHeader(T, k)
             /\ \E k \in PageIdx : IsContent(T, k) )
           => \E common \in {dedupe_list(ContentLines(T))} :
                 \A d \in Weekdays : block_menus[d] = common
        /\ page = "foodcourt"
           => \A n \in 1..Len(restaurant_menus.keys) :
                 \E r \in {restaurant_menus.keys[n]} :
                    (\A q \in PageIdx : IsDayHeader(T, q) /\ InSection(T, q) => SectionOf(T, q) # r)
                    => \A d \in Weekdays :
                          restaurant_menus.val[r][d] = restaurant_menus.val[r]["mandag"]

\* the line at pos is a content line of a food-court section with no day header
\* since the heading
UndatedContent(T) ==
    /\ IsContent(T, pos)
    /\ HeadingBefore(T, pos) > 0 /\ DayHeaderBefore(T, pos) = 0

\* C9 as stated: a section without a day header has one list for the five
\* weekdays, and every content line between a restaurant heading and the
\* next day header is appended to the five weekdays of that restaurant.
C9_UndatedContentToAllWeek ==
    /\ []SameListAllWeek
    /\ [][ (StepOfLine /\ page = "foodcourt") =>
             \E T \in {SegTable} :
                UndatedContent(T)
                => AppendedTo(BucketsOf(block_menus, restaurant_menus, SectionOf(T, pos)),
                              BucketsOf(block_menus', restaurant_menus', SectionOf(T, pos)),
                              Weekdays, T[pos].t)
         ]_vars

\* the line is stored by parse_foodcourt_page: its section is not Sprout and
\* it holds no restaurant name, not even inside a longer word
Storable(T, k) == SectionOf(T, k) # "Sprout" /\ ~NamesRestaurant(Lower(T[k].t))

\* a restaurant heading came after a section that ended under a restricted day
\* set, and the content line after the heading is in the Friday bucket
C9_Witness ==
    /\ page = "foodcourt" /\ spc = "scan" /\ pos > 3
    /\ \E T \in {SegTable} :
          /\ IsHeading(T, pos - 2)
          /\ IsContent(T, pos - 1) /\ Storable(T, pos - 1)
          /\ HeadingBefore(T, pos - 2) > 0
          /\ DayHeaderBefore(T, pos - 2) > 0
          /\ "fredag" \notin SeqSet(parse_days_from_line(T[DayHeaderBefore(T, pos - 2)].t))
          /\ \E b \in {restaurant_menus.val[current_restaurant]["fredag"]} :
                b # <<>> /\ b[Len(b)] = T[pos - 1].t

\* C9, amended: a section without a day header has one list for the five
\* weekdays; a content line between a restaurant heading and the next day
\* header is appended to the five weekdays of that restaurant when the
\* restaurant is not Sprout and the line holds no restaurant name, and is
\* stored in no bucket by its step otherwise.
C9_StorableUndatedContentToAllWeek ==
    /\ []SameListAllWeek
    /\ [][ (StepOfLine /\ page = "foodcourt") =>
             \E T \in {SegTable} :
                UndatedContent(T)
                => IF Storable(T, pos)
                   THEN /\ AppendedTo(BucketsOf(block_menus, restaurant_menus, SectionOf(T, pos)),
                                      BucketsOf(block_menus', restaurant_menus', SectionOf(T, pos)),
                                      Weekdays, T[pos].t)
                        /\ OthersKept(SectionOf(T, pos))
                   ELSE NothingStored
         ]_vars

\* the text of the line k matches a detector of a section name: a restaurant
\* name as a word, or a hub name (hub 1, hub 2, hub 3)
MatchesSectionName(k) ==
    \E low \in {Lower(tidy_line(lines[k]))} :
       \/ \E n \in 1..Len(RESTAURANTS_FOODCOURT) : WordIn(low, RESTAURANTS_FOODCOURT[n])
       \/ MatchesHubNumber(low)

NothingSurfaces ==
    /\ \A d \in DOMAIN block_menus : block_menus[d] = <<>>
    /\ restaurant_menus = EmptyDict
    /\ \A n \in 1..Len(menus_by_hub.keys) :
          \A d \in DOMAIN menus_by_hub.val[menus_by_hub.keys[n]] :
             menus_by_hub.val[menus_by_hub.keys[n]][d] = <<>>
    /\ today_menus = <<>>

DishLines(block) == Tail(block)

\* the line names a restaurant section as a word
NamesSection(line) ==
    \E low \in {Lower(line)} :
       \E n \in 1..Len(RESTAURANTS_FOODCOURT) : WordIn(low, RESTAURANTS_FOODCOURT[n])

\* the dish lines are not empty, not day headers and not boilerplate, and no
\* two of them have the same strong key
CleanDishes(dishes) ==
    /\ \A n \in 1..Len(dishes) :
          /\ dishes[n] # <<>>
          /\ parse_days_from_line(dishes[n]) = <<>>
          /\ ~is_boilerplate(dishes[n])
    /\ \A m, n \in 1..Len(dishes) : norm_key(dishes[m]) = norm_key(dishes[n]) => m = n

\* C11 as stated: every dish line of every block get_today_menus returns is
\* non-empty, is not a day header, is not boilerplate and names no
\* restaurant section, and no two dish lines of a block have the same
\* strong key.
C11_DishLinesClean ==
    spc = "today" =>
       \A b \in 1..Len(today_menus) :
          \E dishes \in {DishLines(today_menus[b])} :
             /\ CleanDishes(dishes)
             /\ \A n \in 1..Len(dishes) : ~NamesSection(dishes[n])

\* the bucket of the day still holds a dish after consolidation and the
\* filtering of empty lines, day headers and boilerplate
HasDish(menu_dict, day) ==
    /\ day \in DOMAIN menu_dict
    /\ \E cons \in {consolidate_split_lines(menu_dict[day])} :
          \E n \in 1..Len(cons) :
             \E t \in {tidy_line(cons[n])} :
                t # <<>> /\ parse_days_from_line(t) = <<>> /\ ~is_boilerplate(t)

\* the target sections of menus_by_hub that have a dish on the day, in the order of the map
SectionsWithDish(mbh, day) ==
    Pick(mbh.keys, {n \in 1..Len(mbh.keys) :
                       mbh.keys[n] \in target_hubs /\ HasDish(mbh.val[mbh.keys[n]], day)})

\* the food-court page gave two sections and one of them has no dish today
C12_Witness ==
    /\ spc = "today" /\ today_da \in Weekdays
    /\ Len(menus_by_hub.keys) = 2 /\ Len(today_menus) = 1

\* C12: get_today_menus returns one block for each target section that has
\* a dish today and no other block, in the order of menus_by_hub; each
\* block is the title line of its section followed by at least one
\* non-empty dish line; on a weekend day it returns the empty list.
C12_OneBlockPerSectionWithDish ==
    spc = "today" =>
       \E secs \in {SectionsWithDish(menus_by_hub, today_da)} :
          /\ Len(today_menus) = Len(secs)
          /\ \A n \in 1..Len(secs) :
                \E block \in {today_menus[n]} :
                   /\ block[1] = Title(secs[n])
                   /\ Len(block) >= 2
                   /\ \A k \in 2..Len(block) : block[k] # <<>>
          /\ today_da \notin Weekdays => today_menus = <<>>

(***************************************************************************)
(* Properties of dedupe_list and dedupe_items (SpecDedup)                  *)
(***************************************************************************)
\* the argument of the call, and the moment right after the first call
DedupArg == IF dd_fn = "list" THEN dd_items ELSE menu_texts
FirstReturn == dd_pc = "returned" /\ dd_runs = 1

\* the pair a block is compared by: key of the title line, key of the first
\* dish line that is not boilerplate (empty when there is none)
PairKey(block) ==
    Val({ <<norm_key(block[1]),
            IF dishes = {} THEN <<>> ELSE norm_key(block[SetMin(dishes)])>>
          : dishes \in {{n \in 2..Len(block) :
                           tidy_line(block[n]) # <<>> /\ ~is_boilerplate(tidy_line(block[n]))}} })

KeyOf(x) == IF dd_fn = "list" THEN norm_key(x) ELSE PairKey(x)

\* the indices of the first element of each key
FirstOfKey(xs) ==
    Val({ {n \in 1..Len(ks) : \A m \in 1..(n-1) : ks[m] # ks[n]}
          : ks \in {Pick([n \in 1..Len(xs) |-> KeyOf(xs[n])], 1..Len(xs))} })

\* the same, without the elements whose key is empty
FirstOfNonEmptyKey(xs) ==
    Val({ {n \in 1..Len(ks) : ks[n] # <<>> /\ \A m \in 1..(n-1) : ks[m] # ks[n]}
          : ks \in {Pick([n \in 1..Len(xs) |-> KeyOf(xs[n])], 1..Len(xs))} })

\* C13 as stated: the result is the subsequence of the argument made of the
\* first element of each key, in the argument's order (for both functions)
C13_FirstOfEachKeyKept ==
    FirstReturn => dd_out = Pick(DedupArg, FirstOfKey(DedupArg))

\* dedupe_list returned two survivors of an argument that holds a later
\* duplicate and an element with an empty key
C13_Witness ==
    /\ FirstReturn
    /\ dd_fn = "list" /\ Len(dd_out) >= 2
    /\ \E n \in 1..Len(dd_items) : norm_key(dd_items[n]) = <<>>
    /\ \E m, n \in 1..Len(dd_items) :
          m < n /\ norm_key(dd_items[m]) = norm_key(dd_items[n]) /\ norm_key(dd_items[n]) # <<>>

\* C13 (amended): the result of dedupe_list is the subsequence of its argument,
\* in the argument's order, made of the first element of each non-empty key:
\* later elements of the key and every element with an empty key are dropped;
\* the result of dedupe_items is the subsequence made of the first block of
\* each pair of keys
C13_FirstOfEachNonEmptyKeyKept ==
    FirstReturn =>
        dd_out = Pick(DedupArg, IF dd_fn = "list" THEN FirstOfNonEmptyKey(DedupArg)
                                ELSE FirstOfKey(DedupArg))

\* C14: applying dedupe_list (dedupe_items) to its own result returns that result
C14_Idempotent ==
    [][(dd_pc = "returned" /\ dd_runs' = dd_runs + 1) => dd_out' = dd_out]_vars

\* the second call has run on a result that is shorter than the argument
C14_Witness ==
    /\ dd_pc = "returned" /\ dd_runs = 2
    /\ Len(dd_out) >= 2 /\ Len(dd_out) < Len(DedupArg)

\* C15: of the blocks with the same pair (key of the title line, key of the
\* first dish line that is not boilerplate) exactly the first is in the result
\* of dedupe_items, even when later lines differ; blocks that differ in a
\* component of the pair are all in the result
C15_SamePairFirstKept ==
    (dd_fn = "items" /\ FirstReturn) =>
        /\ \A n \in 1..Len(menu_texts) :
              (\A m \in 1..(n-1) : PairKey(menu_texts[m]) # PairKey(menu_texts[n]))
                  => \E k \in 1..Len(dd_out) : dd_out[k] = menu_texts[n]
        /\ \A k, l \in 1..Len(dd_out) : k # l => PairKey(dd_out[k]) # PairKey(dd_out[l])
        /\ \A k \in 1..Len(dd_out) :
              \E n \in 1..Len(menu_texts) :
                  /\ dd_out[k] = menu_texts[n]
                  /\ \A m \in 1..(n-1) : PairKey(menu_texts[m]) # PairKey(menu_texts[n])

\* two blocks with the same pair and different later lines, a third block
\* with the same title and another first dish
C15_Witness ==
    /\ dd_fn = "items" /\ FirstReturn
    /\ \E m, n \in 1..Len(menu_texts) :
          /\ m < n /\ menu_texts[m] # menu_texts[n]
          /\ PairKey(menu_texts[m]) = PairKey(menu_texts[n])
    /\ \E k, l \in 1..Len(dd_out) :
          /\ k # l /\ PairKey(dd_out[k])[1] = PairKey(dd_out[l])[1]
          /\ PairKey(dd_out[k])[2] # PairKey(dd_out[l])[2]

(***************************************************************************)
(* Properties of parse_days_from_line (SpecDays)                           *)
(***************************************************************************)
\* the weekdays whose English or Danish name is a word, or a part of a word
\* written without a gap, of the line
WrittenDays(line) ==
    {DAY_MAP(LowerAtom(line[k])) : k \in {m \in 1..Len(line) : LowerAtom(line[m]) \in DayKeys}}

\* C16: the result of parse_days_from_line is the set of the weekdays written
\* in the line, each once, in Monday-to-Friday order; nothing outside
\* Monday..Friday is returned; a line with no weekday word gives the empty list
C16_ExactlyTheWeekdaysWritten ==
    day_pc = "returned" =>
        /\ day_result = Pick(DAILY_DAYS_DA,
                             {n \in 1..Len(DAILY_DAYS_DA) : DAILY_DAYS_DA[n] \in WrittenDays(day_line)})
        /\ \A k \in 1..Len(day_result) : day_result[k] \in Weekdays

(***************************************************************************)
(* Termination of consolidate_split_lines (SpecConsFair)                   *)
(***************************************************************************)
\* C17: every iteration of the outer loop moves i forward by at least one and
\* never beyond one past the last line, i stays within 1..len(raw_lines)+1,
\* and the function returns a list for every input
C17_TotalAndTerminates ==
    /\ [](cpc = "loop" => i \in 1..(Len(raw_lines) + 1))
    /\ [][(cpc = "loop" /\ cpc' = "loop") => (i' > i /\ i' <= Len(raw_lines) + 1)]_vars
    /\ [](cpc = "done" => (i = Len(raw_lines) + 1 /\ result \in Seq(Seq(STRING))))
    /\ <>(cpc = "done")

\* the function has returned after one iteration that moved i from the first
\* line to the end of an input of several lines
C17_Witness ==
    /\ cpc = "done" /\ Len(raw_lines) >= 3
    /\ Len(out) = 1 /\ out[1].src = LineIdx

(***************************************************************************)
(* Common content of a hub page (SpecSeg)                                  *)
(***************************************************************************)
\* a hub page with a day header has been parsed
HubParsedWithDays(T) ==
    page = "hub" /\ spc = "parsed" /\ \E k \in PageIdx : IsDayHeader(T, k)

\* the content lines before the first day header
HubCommonIdx(T) == {k \in PageIdx : IsContent(T, k) /\ DayHeaderBefore(T, k) = 0}

\* the content lines under a day header that names the day d
HubDayIdx(T, d) ==
    {k \in PageIdx : /\ IsContent(T, k) /\ DayHeaderBefore(T, k) > 0
                     /\ d \in SeqSet(parse_days_from_line(T[DayHeaderBefore(T, k)].t))}

NoTwoWithSameKey(bucket) ==
    \A m, n \in 1..Len(bucket) : m # n => norm_key(bucket[m]) # norm_key(bucket[n])

\* C20 as stated: every common line is in every weekday bucket of the result,
\* and no bucket holds two lines with the same strong key
C20_CommonInEveryBucket ==
    (page = "hub" /\ spc = "parsed") =>
        \E T \in {SegTable} : HubParsedWithDays(T) =>
            \A d \in Weekdays :
                /\ \A k \in HubCommonIdx(T) : T[k].t \in SeqSet(block_menus[d])
                /\ NoTwoWithSameKey(block_menus[d])

\* a common line is missing from the bucket of a day that has its own line with
\* the same strong key, and is in the bucket of another day
C20_Witness ==
    /\ page = "hub" /\ spc = "parsed"
    /\ \E T \in {SegTable} :
        /\ HubParsedWithDays(T)
        /\ \E k \in HubCommonIdx(T) : \E d1, d2 \in Weekdays :
              /\ norm_key(T[k].t) # <<>>
              /\ T[k].t \notin SeqSet(block_menus[d1])
              /\ \E m \in HubDayIdx(T, d1) : norm_key(T[m].t) = norm_key(T[k].t)
              /\ T[k].t \in SeqSet(block_menus[d2])

\* C20 (amended): when the page has a day header, every weekday bucket of the
\* result holds, for every common line whose strong key is not empty, exactly
\* one line with that key: the first of the day's own lines with the key if
\* there is one, else the first common line with the key; no bucket holds two
\* lines with the same strong key
C20_CommonKeyInEveryBucket ==
    (page = "hub" /\ spc = "parsed") =>
        \E T \in {SegTable} : HubParsedWithDays(T) =>
            \A d \in Weekdays :
                /\ \A k \in HubCommonIdx(T) :
                      norm_key(T[k].t) # <<>> =>
                          \E own \in {{m \in HubDayIdx(T, d) : norm_key(T[m].t) = norm_key(T[k].t)}} :
                          \E com \in {{m \in HubCommonIdx(T) : norm_key(T[m].t) = norm_key(T[k].t)}} :
                              T[IF own # {} THEN SetMin(own) ELSE SetMin(com)].t
                                  \in SeqSet(block_menus[d])
                /\ NoTwoWithSameKey(block_menus[d])

(***************************************************************************)
(* Properties of scrape_weekly_menus (SpecScrape)                          *)
(***************************************************************************)
\* no key has been assigned twice
NoKeyTwice == \A m, n \in 1..Len(assigned) : m # n => assigned[m] # assigned[n]

\* no parser is at work: none has been called yet, or the last page is merged
NoPageInWork == spc \in {"idle", "merged"}

\* C18: a page is fetched only when no parser is at work and the buckets of
\* the page before it, if it was loaded, are in menus_by_hub; from the call of
\* the parser to the merge the loop stays on the same page; every key is
\* assigned into menus_by_hub at most once, and an assignment leaves the
\* buckets stored for the other keys as they are
C18_PagesInTurnKeysOnce ==
    /\ [](NoKeyTwice /\ Len(assigned) = Len(menus_by_hub.keys))
    /\ [](sw_pc = "parse" => (hub_name = HUB_PAGES[hub_idx] /\ lines = html.lines))
    /\ [][ (sw_pc = "fetch" /\ sw_pc' = "test") => NoPageInWork ]_vars
    /\ [][ hub_idx' # hub_idx =>
             /\ hub_idx' = hub_idx + 1
             /\ html.loaded => spc' = "merged"
             /\ \A n \in 1..Len(menus_by_hub.keys) :
                   /\ HasKey(menus_by_hub', menus_by_hub.keys[n])
                   /\ menus_by_hub'.val[menus_by_hub.keys[n]] = menus_by_hub.val[menus_by_hub.keys[n]]
          ]_vars

\* the loop has ended with a hub page and the food-court page merged: the hub
\* and two restaurants have their buckets
C18_Witness ==
    /\ sw_pc = "done"
    /\ Len(assigned) >= 3
    /\ HasKey(menus_by_hub, "HUB2") /\ HasKey(menus_by_hub, "Sprout")
    /\ HasKey(menus_by_hub, "Homebound")

(***************************************************************************)
(* Properties of fetch_page (SpecFetch)                                    *)
(***************************************************************************)
\* the candidate at position k yields a document that passes the sanity check
Passing(k) == ~fp_urls[k].raises /\ fp_urls[k].len > 1000

\* the position of the first passing candidate, Len+1 when there is none
FirstPassing == SetMin({k \in 1..(Len(fp_urls) + 1) : k = Len(fp_urls) + 1 \/ Passing(k)})

\* the candidates are requested in list order up to the first passing one
RequestedInOrder ==
    \E f \in {FirstPassing} :
        fp_requested = [k \in 1..(IF f > Len(fp_urls) THEN Len(fp_urls) ELSE f) |-> k]

\* C21: the candidates are requested in list order; the first one whose page
\* source passes the sanity check is returned and no later one is requested;
\* a candidate that raises or fails the check is followed by the next one;
\* when no candidate passes the check, None is returned (an empty page source,
\* which the caller cannot tell from None, is let through here)
C21_FirstPassingOrNone ==
    fp_pc = "returned" =>
        /\ RequestedInOrder
        /\ \E f \in {FirstPassing} :
              IF f <= Len(fp_urls)
              THEN fp_html = [doc |-> "page", url |-> f, len |-> fp_urls[f].len]
              ELSE fp_html = NoDoc \/ fp_html.len = 0

(***************************************************************************)
(* Conservation of content in consolidate_split_lines (SpecCons)           *)
(***************************************************************************)
\* the entries of out that hold text of the line k
EntriesOf(k) == {p \in OutIdx : k \in out[p].src}

\* the text of the line k is in the entry e: a line that starts an entry as a
\* dish line or a day header is the start of its text, a line absorbed later
\* is a part of it, a label is there in capitals
TextIn(T, e, k) ==
    IF k # SetMin(e.src) THEN Contains(e.text, T[k].cur)
    ELSE IF T[k].branch \in {"general", "header"} THEN OccursAt(e.text, T[k].cur, 1)
    ELSE OccursAt(e.text, Upper(<<T[k].cur[1]>>) \o <<":">>, 1)

\* C22: when the loop ends, every line that is not empty, not boilerplate and
\* not a bare vegetarian label has its text in exactly one entry of out; the
\* lines of an entry are a run of the input in which only empty and
\* boilerplate lines are passed over; the entries are in input order; a line
\* with no entry is empty, boilerplate, or a bare label with nothing to absorb
C22_ContentConserved ==
    LoopEnded =>
        \E T \in {LineTable} :
            /\ \A k \in LineIdx :
                  IF T[k].noise THEN EntriesOf(k) = {}
                  ELSE IF BareLabel(T[k].cur) /\ LabelAbsorbed(T, k) = {} THEN EntriesOf(k) = {}
                  ELSE /\ Cardinality(EntriesOf(k)) = 1
                       /\ \A p \in EntriesOf(k) : TextIn(T, out[p], k)
            /\ \A p \in OutIdx :
                  /\ out[p].src # {} /\ out[p].src \subseteq LineIdx
                  /\ \A k \in SetMin(out[p].src)..SetMax(out[p].src) :
                        k \in out[p].src \/ T[k].noise
                  /\ \A q \in OutIdx : p < q => SetMax(out[p].src) < SetMin(out[q].src)

\* the loop has ended with two entries, the first of them a bare label that
\* absorbed a line over an empty or boilerplate line
C22_Witness ==
    /\ LoopEnded /\ Len(out) >= 2
    /\ \E T \in {LineTable} : \E k \in LineIdx :
          /\ T[k].noise /\ k \notin out[1].src
          /\ SetMin(out[1].src) < k /\ k < SetMax(out[1].src)
          /\ BareLabel(T[SetMin(out[1].src)].cur)

(***************************************************************************)
(* The Sprout section of parse_foodcourt_page (SpecSprout)                 *)
(***************************************************************************)
\* the line k lies in a Sprout section and is not the heading of a section
InSprout(T, k) == ~IsHeading(T, k) /\ HeadingBefore(T, k) > 0 /\ SectionOf(T, k) = "Sprout"

HasKeyword(T, k) == SproutKeyword(Lower(T[k].t))

\* the texts of the lines of K, in page order
TextsOf(T, K) == Pick([k \in PageIdx |-> T[k].t], K)

\* the five weekdays of Sprout, and no other day, hold the list expected
SproutHolds(expected) ==
    HasKey(restaurant_menus, "Sprout")
    => /\ DOMAIN restaurant_menus.val["Sprout"] = Weekdays
       /\ \A d \in Weekdays : restaurant_menus.val["Sprout"][d] = expected

\* no step on a line read while Sprout is the current section stores
\* anything, and the return only deduplicates the lists of the other sections
SproutLinesNotStored ==
    /\ [][ (StepOfLine /\ current_restaurant = "Sprout") => NothingStored ]_vars
    /\ [][ (spc = "scan" /\ spc' = "parsed") =>
             \A n \in 1..Len(restaurant_menus.keys) :
                \E r \in {restaurant_menus.keys[n]} :
                   r # "Sprout"
                   => /\ HasKey(restaurant_menus', r)
                      /\ DOMAIN restaurant_menus'.val[r] = DOMAIN restaurant_menus.val[r]
                      /\ \A d \in DOMAIN restaurant_menus.val[r] :
                            restaurant_menus'.val[r][d] = dedupe_list(restaurant_menus.val[r][d])
         ]_vars

\* C23 as stated: in the result the five weekdays of Sprout hold one list, the
\* deduplicated sequence in page order of the lines of the Sprout sections
\* (the non-empty, non-boilerplate lines after a Sprout heading and before the
\* next heading) that contain salad, salat, protein or dagens; the other lines
\* of the Sprout sections are stored in no bucket.
C23_SproutKeywordLines ==
    /\ [] ( spc = "parsed" =>
              \E T \in {SegTable} :
                 SproutHolds(dedupe_list(TextsOf(T,
                     {k \in PageIdx : InSprout(T, k) /\ T[k].class # "noise" /\ HasKeyword(T, k)}))) )
    /\ SproutLinesNotStored

\* C23, amended: the lines kept are the content lines of the Sprout sections
\* that contain a keyword, a content line being one that is not empty, not
\* boilerplate, not a restaurant heading and not a day header; a keyword line
\* that names a weekday is a day header and is kept nowhere.
C23_SproutKeywordContentLines ==
    /\ [] ( spc = "parsed" =>
              \E T \in {SegTable} :
                 SproutHolds(dedupe_list(TextsOf(T,
                     {k \in PageIdx : InSprout(T, k) /\ IsContent(T, k) /\ HasKeyword(T, k)}))) )
    /\ SproutLinesNotStored

\* the page is parsed; a Sprout section held a day header that does not name
\* Friday, a keyword line and a line without a keyword, and Friday holds the
\* keyword line
C23_Witness ==
    /\ spc = "parsed" /\ HasKey(restaurant_menus, "Sprout")
    /\ Len(restaurant_menus.val["Sprout"]["fredag"]) = 1
    /\ \E T \in {SegTable} :
          /\ \E k \in PageIdx :
                /\ InSprout(T, k) /\ IsDayHeader(T, k) /\ ~HasKeyword(T, k)
                /\ "fredag" \notin SeqSet(parse_days_from_line(T[k].t))
          /\ \E k \in PageIdx : InSprout(T, k) /\ IsContent(T, k) /\ ~HasKeyword(T, k)

====
